---- MODULE Spec2Model ----
(***************************************************************************)
(* Model of the SMC analysis core of src/frontend/services/smcService.ts:  *)
(* the Swing Detector findSwingPoints, the Structure Analyzer and the      *)
(* Entry Tracker loop of analyzeSMC, the Backtest Simulator runBacktest,   *)
(* the Optimizer (generateCombinations, runOptimizer) and retry; and of    *)
(* the request handlers of the worker of src/unnamed/part_002.             *)
(*                                                                         *)
(* JavaScript numbers are modelled as exact extended rationals [n, d]:     *)
(* d > 0 is the rational n/d in lowest terms, [1,0] and [-1,0] are         *)
(* +Infinity and -Infinity and [0,0] is NaN.  Rounding of binary floating  *)
(* point is not modelled; signed zero is not modelled.                     *)
(* Candle times are positive integers that increase along a series (the    *)
(* 1-based index of the candle, the index plus 3 in the HTF series of the  *)
(* BOS legs), so 0 never is a candle time and stands for null.             *)
(***************************************************************************)
EXTENDS Integers, Sequences, FiniteSets, TLC

\* ------------------------------------------------------------------ bounds
\* the longest candle list runBacktest is given
MaxCandles == 4
\* the longest LTF series analyzeSMC is given
MaxLtf == 10
\* the longest buffer a monitored POI accumulates
MaxBuf == 4

\* ----------------------------------------------------------- input domains
Prices == 1 .. 3

TopPrice == CHOOSE p \in Prices : \A q \in Prices : q <= p

\* entry times and number of the signals runBacktest is given
SignalTimes == 1 .. 2

SignalCounts == 0 .. 2

\* start times and number of the POIs the Entry Tracker starts with
PoiStarts == 1 .. 2

PoiCounts == 0 .. 2

\* ------------------------------------------------- JavaScript number model
Abs(x) == IF x < 0 THEN -x ELSE x

Sgn(x) == IF x > 0 THEN 1 ELSE IF x < 0 THEN -1 ELSE 0

RECURSIVE Gcd(_, _)
Gcd(a, b) == IF b = 0 THEN a ELSE Gcd(b, a % b)

Num(n, d) ==
    IF d = 0 THEN [n |-> Sgn(n), d |-> 0]
    ELSE LET g == Gcd(Abs(n), Abs(d))
         IN  [n |-> (Sgn(d) * n) \div g, d |-> Abs(d) \div g]

I(k) == [n |-> k, d |-> 1]

Zero == I(0)

NaN == [n |-> 0, d |-> 0]

Infinity == [n |-> 1, d |-> 0]

IsNaN(a) == a.d = 0 /\ a.n = 0

Add(a, b) ==
    IF a.d = 0 /\ b.d = 0 THEN (IF a = b THEN a ELSE NaN)
    ELSE Num(a.n * b.d + b.n * a.d, a.d * b.d)

Neg(a) == [n |-> -a.n, d |-> a.d]

Sub(a, b) == Add(a, Neg(b))

Mul(a, b) == Num(a.n * b.n, a.d * b.d)

Div(a, b) == Mul(a, Num(b.d, b.n))

\* a < b, false when either side is NaN
Lt(a, b) ==
    /\ ~IsNaN(a)
    /\ ~IsNaN(b)
    /\ IF a.d = 0 /\ b.d = 0 THEN a.n < b.n ELSE a.n * b.d < b.n * a.d

\* a <= b, false when either side is NaN
Le(a, b) == ~IsNaN(a) /\ ~IsNaN(b) /\ (a = b \/ Lt(a, b))

Gt(a, b) == Lt(b, a)

Ge(a, b) == Le(b, a)

MathAbs(a) == [n |-> Abs(a.n), d |-> a.d]

\* Math.ceil: the least integer >= a; NaN and the infinities are unchanged
MathCeil(a) == IF a.d = 0 THEN a ELSE I(-((-a.n) \div a.d))

\* JavaScript truthiness of a number: neither 0 nor NaN
Truthy(a) == ~IsNaN(a) /\ a # Zero

RECURSIVE SumSeq(_)
SumSeq(s) == IF s = <<>> THEN Zero ELSE Add(SumSeq(SubSeq(s, 1, Len(s) - 1)), s[Len(s)])

\* ------------------------------------------------------------- sequences
Last(s) == s[Len(s)]

RemoveAt(s, k) == SubSeq(s, 1, k - 1) \o SubSeq(s, k + 1, Len(s))

RECURSIVE InsertByTime(_, _)
\* insert x after every element of the sorted sequence s with entryTime <= x.entryTime
InsertByTime(s, x) ==
    IF s = <<>> THEN <<x>>
    ELSE IF s[Len(s)].entryTime <= x.entryTime THEN Append(s, x)
    ELSE Append(InsertByTime(SubSeq(s, 1, Len(s) - 1), x), s[Len(s)])

RECURSIVE ReverseSeq(_)
ReverseSeq(s) == IF s = <<>> THEN <<>> ELSE <<s[Len(s)]>> \o ReverseSeq(SubSeq(s, 1, Len(s) - 1))

RECURSIVE SortDescending(_)
SortDescending(s) ==
    IF s = <<>> THEN <<>>
    ELSE ReverseSeq(InsertByTime(ReverseSeq(SortDescending(SubSeq(s, 1, Len(s) - 1))),
                                 s[Len(s)]))

RECURSIVE SortByEntryTime(_)
\* Array.prototype.sort with (a, b) => a.entryTime - b.entryTime: stable, ascending
SortByEntryTime(s) ==
    IF s = <<>> THEN <<>>
    ELSE InsertByTime(SortByEntryTime(SubSeq(s, 1, Len(s) - 1)), s[Len(s)])

\* ------------------------------------------------------------------ state
VARIABLES
    settings,           \* the Settings value of the run
    startingEquity,     \* runBacktest's optional argument: <<>> when absent, <<x>> when given
    tradeSignals,       \* runBacktest's signal argument, as the caller passed it
    candle,             \* the candle of the current loop iteration (time 0 before the first)
    equity,
    peakEquity,
    maxDrawdown,
    maxDrawdownAmount,
    executedTrades,
    activeTrade,        \* index into executedTrades of the open trade, 0 for null
    pendingSignals,
    btResult,           \* the BacktestResults returned, <<>> while the loop runs
    btPc,               \* "loop" | "wide" | "done"; "off" when no backtest is running
    potentialPois,      \* analyzeSMC: the POIs pushed by the Structure Analyzer, in push order
    activePois,         \* analyzeSMC: the POIs not yet entered, ascending startTime
    monitoredPoi,       \* <<>> for null, <<poi>> while Monitoring
    ltfDataForChoch,    \* the LTF buffer of the monitored POI
    currentLtfCandle,   \* the LTF candle of the current loop iteration
    allTrades,          \* the signals pushed so far
    allDrawings,        \* the annotations pushed by the Entry Tracker loop
    episodes,           \* history: one record per POI entered, with what it produced
    smcResult,          \* the signal list analyzeSMC returns, <<>> before it returns
    smcPc,              \* "structure" | "selected" | "loop" | "done"; "off" when no
                        \* analysis is running
    seriesLen,          \* analyzeSMC: the lengths of the htf, mtf and ltf series it is given
    smcDrawings,        \* the drawings analyzeSMC returns, <<>> before it returns
    htf,                \* analyzeSMC: the HTF series of a structure analysis
    mtf,                \* analyzeSMC: the MTF series of a structure analysis
    htfSwings,          \* analyzeSMC: htfSwings of line 327, sorted by lines 328-329
    legI,               \* analyzeSMC: the loop index i of line 334 or 382, 0-based
    swData,             \* findSwingPoints: the candle series it is called with
    swLookback,         \* findSwingPoints: the lookback it is called with
    swResult,           \* what findSwingPoints returned, <<>> before it returns
    swPc,               \* "call" | "done"; "off" when findSwingPoints is not called alone
    baseSettings,       \* runOptimizer: the Settings it is called with
    optimizerSettings,  \* runOptimizer: the OptimizerSettings it is called with
    chartData,          \* runOptimizer: the three candle series it is called with
    keyIndex,           \* generateCombinations: position of the forEach of line 683
    rangeV,             \* generateCombinations: <<v>> inside the loop of line 687, else <<>>
    rangeValues,        \* generateCombinations: `values` of the key being expanded
    paramsToOptimize,
    combinations,
    runs,
    optI,               \* runOptimizer: the loop index i of line 729
    analyses,           \* history: how many times analyzeSMC and runBacktest were run
    analysis,           \* runOptimizer: `analysis` of line 733, <<>> before the first run
    optResult,          \* the OptimizationResults returned, <<>> before the return
    optError,           \* <<n>> when the Error carrying the count n was thrown, else <<>>
    optPc,              \* "expand" | "generated" | "prepared" | "done" | "error" | "off"
    attempts,           \* retry: its argument `attempts`
    delay,              \* retry: its argument `delay`, in ms
    rtI,                \* retry: the loop index i of line 102
    rtResult,           \* retry: <<v>> once it has returned v, <<>> before
    rtLog,              \* history: the calls of fn, what they gave and the delays waited
    rtPc,               \* "call" | "await" | "sleep" | "done"; "off" when retry is not called
    kv,                 \* worker: the keys of the KV namespace env.SMC_STATE, "null" when unset
    requests,           \* worker: the requests fetch has dispatched, each with the position
                        \* of its handler, what it has read and its response
    wkPc                \* "serving"; "off" when the worker is not followed

btVars == <<startingEquity, tradeSignals, candle, equity, peakEquity, maxDrawdown,
            maxDrawdownAmount, executedTrades, activeTrade, pendingSignals, btResult, btPc>>

smcVars == <<potentialPois, activePois, monitoredPoi, ltfDataForChoch, currentLtfCandle,
             allTrades, allDrawings, episodes, smcResult, smcPc, seriesLen, smcDrawings,
             htf, mtf, htfSwings, legI>>

legVars == <<htf, mtf, htfSwings, legI>>

\* no structure analysis is followed step by step
LegOff ==
    /\ htf = <<>>
    /\ mtf = <<>>
    /\ htfSwings = <<>>
    /\ legI = 0

swVars == <<swData, swLookback, swResult, swPc>>

optVars == <<baseSettings, optimizerSettings, chartData, keyIndex, rangeV, rangeValues,
             paramsToOptimize, combinations, runs, optI, analyses, analysis, optResult,
             optError, optPc>>

rtVars == <<attempts, delay, rtI, rtResult, rtLog, rtPc>>

wkVars == <<kv, requests, wkPc>>

vars == <<settings, btVars, smcVars, swVars, optVars, rtVars, wkVars>>

Directions == {"Bullish", "Bearish"}

Candle(t, o, h, l, c) == [time |-> t, open |-> o, high |-> h, low |-> l, close |-> c]

NoCandle == Candle(0, 0, 0, 0, 0)

\* ------------------------------------------------------- Backtest Simulator
\* The candles runBacktest reads: it uses time, low and high only.
BtCandleShapes == {<<l, h>> \in Prices \X Prices : l <= h}

\* A TradeSignal whose take-profit is the one analyzeSMC computes for it.
Signal(t, type, entry, sl, rr) ==
    [entryTime |-> t, entryPrice |-> I(entry), stopLoss |-> I(sl),
     takeProfit |-> IF type = "Bullish" THEN Add(I(entry), Mul(I(entry - sl), rr))
                                         ELSE Sub(I(entry), Mul(I(sl - entry), rr)),
     type |-> type]

\* Signals with the stop one tick on the losing side of the entry, or on the entry itself
\* (zero risk).
SignalDomain(rr) ==
    {Signal(t, "Bullish", e, e - r, rr) :
         t \in SignalTimes, e \in Prices \ {1}, r \in {0, 1}} \cup
    {Signal(t, "Bearish", e, e + r, rr) :
         t \in SignalTimes, e \in Prices \ {TopPrice}, r \in {0, 1}}

BtSettings(rr, cp, osp, fbc) ==
    [ltfChochLookback |-> 1, slType |-> "structure", fixedSlValue |-> 0,
     initialCapital |-> 100, orderSizePercent |-> osp, rrRatio |-> rr,
     commissionPercent |-> cp, filterByCommission |-> fbc]

BtSettingsDomain ==
    {BtSettings(Num(1, 2), 0, 10, FALSE), BtSettings(I(1), 20, 50, TRUE)}

initialCapitalForRun ==
    IF startingEquity # <<>> THEN startingEquity[1] ELSE I(settings.initialCapital)

HitSL(t, c) ==
    IF t.type = "Bullish" THEN Le(I(c.low), t.slPrice) ELSE Ge(I(c.high), t.slPrice)

HitTP(t, c) ==
    IF t.type = "Bullish" THEN Ge(I(c.high), t.tpPrice) ELSE Le(I(c.low), t.tpPrice)

CloseOutcomeTakeProfitFirst(t, c) ==
    IF HitTP(t, c) THEN "Win" ELSE IF HitSL(t, c) THEN "Loss" ELSE "None"

\* lines 556-562: the stop-loss is tested first
CloseOutcome(t, c) ==
    IF HitSL(t, c) THEN "Loss" ELSE IF HitTP(t, c) THEN "Win" ELSE "None"

CloseExitPrice(t, c) ==
    IF HitSL(t, c) THEN t.slPrice ELSE IF HitTP(t, c) THEN t.tpPrice ELSE Zero

\* line 564: if (outcome && exitPrice)
Closes(t, c) == CloseOutcome(t, c) # "None" /\ Truthy(CloseExitPrice(t, c))

\* lines 565-571
NetPnl(t, outcome) ==
    LET equityBefore == t.equity
        amountToRisk == MathAbs(t.pnl)
        positionValue == Mul(t.leverage, equityBefore)
        finalPnl == IF outcome = "Win" THEN Mul(amountToRisk, settings.rrRatio)
                                       ELSE Neg(amountToRisk)
        finalCommissionCost ==
            Mul(Mul(positionValue, Div(I(settings.commissionPercent), I(100))), I(2))
    IN  Sub(finalPnl, finalCommissionCost)

EquityAfterSignSlip(eq, netPnl) == Sub(eq, netPnl)

\* line 573: equity += netPnl
EquityAfter(eq, netPnl) == Add(eq, netPnl)

\* Step 1 of the loop body (lines 549-592) on the loop state st
CloseStep(st, c) ==
    IF st.activeTrade = 0 THEN st
    ELSE LET t == st.executedTrades[st.activeTrade] IN
         IF ~Closes(t, c) THEN st
         ELSE LET outcome == CloseOutcome(t, c)
                  netPnl == NetPnl(t, outcome)
                  eq == EquityAfter(st.equity, netPnl)
                  peak == IF Gt(eq, st.peakEquity) THEN eq ELSE st.peakEquity
                  drawdownPercent ==
                      IF Gt(peak, Zero) THEN Mul(Div(Sub(peak, eq), peak), I(100)) ELSE Zero
                  deeper == Gt(drawdownPercent, st.maxDrawdown)
                  closed == [t EXCEPT !.outcome = outcome,
                                      !.exitTime = c.time,
                                      !.exitPrice = CloseExitPrice(t, c),
                                      !.pnl = netPnl,
                                      !.equity = eq,
                                      !.returnOnEquityPercent =
                                          Mul(Div(netPnl, t.equity), I(100))]
              IN  [st EXCEPT !.equity = eq,
                             !.peakEquity = peak,
                             !.maxDrawdown = IF deeper THEN drawdownPercent ELSE @,
                             !.maxDrawdownAmount = IF deeper THEN Sub(peak, eq) ELSE @,
                             !.executedTrades = [@ EXCEPT ![st.activeTrade] = closed],
                             !.activeTrade = 0]

\* lines 601-602
IsEntry(signal, c) ==
    \/ /\ signal.type = "Bullish"
       /\ Le(I(c.low), signal.entryPrice)
       /\ Ge(I(c.high), signal.entryPrice)
    \/ /\ signal.type = "Bearish"
       /\ Ge(I(c.high), signal.entryPrice)
       /\ Le(I(c.low), signal.entryPrice)

riskPerUnit(signal) == MathAbs(Sub(signal.entryPrice, signal.stopLoss))

amountToRiskOriginal(eq) == Mul(eq, Div(I(settings.orderSizePercent), I(100)))

positionValueOriginal(signal, eq) ==
    Mul(Div(amountToRiskOriginal(eq), riskPerUnit(signal)), signal.entryPrice)

CommissionNeverFiltered(signal, eq) == FALSE

\* lines 613-617: the signal is skipped by the commission filter
CommissionFiltered(signal, eq) ==
    /\ settings.filterByCommission
    /\ LET commissionCost ==
               Mul(Mul(positionValueOriginal(signal, eq),
                       Div(I(settings.commissionPercent), I(100))), I(2))
           potentialProfit == Mul(amountToRiskOriginal(eq), settings.rrRatio)
       IN  Le(potentialProfit, commissionCost)

ZeroRiskUnchecked(signal) == FALSE

\* line 608: if (riskPerUnit <= 0) continue
ZeroRisk(signal) == Le(riskPerUnit(signal), Zero)

OpensBeforeDue(signal, c, eq) ==
    /\ IsEntry(signal, c)
    /\ ~ZeroRisk(signal)
    /\ ~CommissionFiltered(signal, eq)

\* the loop at line 596 reaches `break` on this signal
Opens(signal, c, eq) ==
    /\ ~(c.time < signal.entryTime)
    /\ IsEntry(signal, c)
    /\ ~ZeroRisk(signal)
    /\ ~CommissionFiltered(signal, eq)

OpenTradeAtSignalTime(signal, c, eq) ==
    LET exactLeverage == Div(positionValueOriginal(signal, eq), eq)
        appliedLeverage == MathCeil(exactLeverage)
        finalPositionValue == Mul(eq, appliedLeverage)
        finalPositionSizeInUnits == Div(finalPositionValue, signal.entryPrice)
        finalAmountToRisk == Mul(finalPositionSizeInUnits, riskPerUnit(signal))
    IN  [signalTime |-> signal.entryTime,
         entryTime |-> signal.entryTime,
         outcome |-> "Open",
         exitTime |-> 0,
         exitPrice |-> Zero,
         entryPrice |-> signal.entryPrice,
         type |-> signal.type,
         pnl |-> finalAmountToRisk,
         equity |-> eq,
         slPrice |-> signal.stopLoss,
         tpPrice |-> signal.takeProfit,
         returnOnEquityPercent |-> Zero,
         leverage |-> appliedLeverage]

\* lines 619-639
OpenTrade(signal, c, eq) ==
    LET exactLeverage == Div(positionValueOriginal(signal, eq), eq)
        appliedLeverage == MathCeil(exactLeverage)
        finalPositionValue == Mul(eq, appliedLeverage)
        finalPositionSizeInUnits == Div(finalPositionValue, signal.entryPrice)
        finalAmountToRisk == Mul(finalPositionSizeInUnits, riskPerUnit(signal))
    IN  [signalTime |-> signal.entryTime,
         entryTime |-> c.time,
         outcome |-> "Open",
         exitTime |-> 0,
         exitPrice |-> Zero,
         entryPrice |-> signal.entryPrice,
         type |-> signal.type,
         pnl |-> finalAmountToRisk,
         equity |-> eq,
         slPrice |-> signal.stopLoss,
         tpPrice |-> signal.takeProfit,
         returnOnEquityPercent |-> Zero,
         leverage |-> appliedLeverage]

LastOpening(pending, c, eq) ==
    LET hits == {k \in 1 .. Len(pending) : Opens(pending[k], c, eq)}
    IN  IF hits = {} THEN 0 ELSE CHOOSE k \in hits : \A j \in hits : k >= j

\* the first index of the pending queue the scan of line 596 opens a trade for, 0 if none
FirstOpening(pending, c, eq) ==
    LET hits == {k \in 1 .. Len(pending) : Opens(pending[k], c, eq)}
    IN  IF hits = {} THEN 0 ELSE CHOOSE k \in hits : \A j \in hits : k <= j

ScanSignalsDroppingSkipped(st, c) ==
    LET k == FirstOpening(st.pendingSignals, c, st.equity) IN
    IF k = 0 THEN st
    ELSE [st EXCEPT !.executedTrades =
                        Append(@, OpenTrade(st.pendingSignals[k], c, st.equity)),
                    !.activeTrade = Len(st.executedTrades) + 1,
                    !.pendingSignals = SubSeq(@, k + 1, Len(@))]

\* the scan of lines 596-646
ScanSignals(st, c) ==
    LET k == FirstOpening(st.pendingSignals, c, st.equity) IN
    IF k = 0 THEN st
    ELSE [st EXCEPT !.executedTrades =
                        Append(@, OpenTrade(st.pendingSignals[k], c, st.equity)),
                    !.activeTrade = Len(st.executedTrades) + 1,
                    !.pendingSignals = RemoveAt(@, k)]

OpenStepWhileActive(st, c) == ScanSignals(st, c)

\* Step 2 of the loop body (lines 595-647) on the loop state st
OpenStep(st, c) == IF st.activeTrade # 0 THEN st ELSE ScanSignals(st, c)

LoopState ==
    [equity |-> equity, peakEquity |-> peakEquity, maxDrawdown |-> maxDrawdown,
     maxDrawdownAmount |-> maxDrawdownAmount, executedTrades |-> executedTrades,
     activeTrade |-> activeTrade, pendingSignals |-> pendingSignals]

\* lines 537-545
BtInit ==
    /\ settings \in BtSettingsDomain
    /\ startingEquity \in {<<>>, <<I(50)>>}
    /\ \E n \in SignalCounts :
           tradeSignals \in [1 .. n -> SignalDomain(settings.rrRatio)]
    /\ candle = NoCandle
    /\ equity = initialCapitalForRun
    /\ peakEquity = initialCapitalForRun
    /\ maxDrawdown = Zero
    /\ maxDrawdownAmount = Zero
    /\ executedTrades = <<>>
    /\ activeTrade = 0
    /\ pendingSignals = SortByEntryTime(tradeSignals)
    /\ btResult = <<>>
    /\ btPc = "loop"

\* one iteration of `for (const candle of ltfData)` (lines 547-648)
BacktestStep ==
    /\ btPc = "loop"
    /\ candle.time < MaxCandles
    /\ \E shape \in BtCandleShapes :
           LET c == Candle(candle.time + 1, shape[1], shape[2], shape[1], shape[2])
           IN  \E st \in {OpenStep(CloseStep(LoopState, c), c)} :
               /\ candle' = c
               /\ equity' = st.equity
               /\ peakEquity' = st.peakEquity
               /\ maxDrawdown' = st.maxDrawdown
               /\ maxDrawdownAmount' = st.maxDrawdownAmount
               /\ executedTrades' = st.executedTrades
               /\ activeTrade' = st.activeTrade
               /\ pendingSignals' = st.pendingSignals
    /\ UNCHANGED <<settings, startingEquity, tradeSignals, btResult, btPc>>
    /\ UNCHANGED <<smcVars, swVars, optVars>>
    /\ UNCHANGED rtVars
    /\ UNCHANGED wkVars

\* line 650: the trades that are not Open
ClosedOf(trades) == SelectSeq(trades, LAMBDA t : t.outcome # "Open")

closedTrades == ClosedOf(executedTrades)

\* lines 661-662: the sum of the pnl of the trades with this outcome
PnlIn(trades, outcome) ==
    LET ts == SelectSeq(trades, LAMBDA t : t.outcome = outcome)
    IN  SumSeq([k \in 1 .. Len(ts) |-> ts[k].pnl])

PnlOf(outcome) == PnlIn(executedTrades, outcome)

\* lines 657-674 without the early return of lines 653-655
ResultsWithoutEarlyReturn(st, capital) ==
    LET closed == ClosedOf(st.executedTrades)
        totalTrades == Len(closed)
        wins == Len(SelectSeq(closed, LAMBDA t : t.outcome = "Win"))
        totalWinPnl == PnlIn(st.executedTrades, "Win")
        totalLossPnl == MathAbs(PnlIn(st.executedTrades, "Loss"))
    IN  [trades |-> st.executedTrades, maxDrawdown |-> st.maxDrawdown,
         maxDrawdownAmount |-> st.maxDrawdownAmount,
         netProfitPercent |-> Mul(Div(Sub(st.equity, capital), capital), I(100)),
         winRate |-> IF totalTrades > 0 THEN Mul(Div(I(wins), I(totalTrades)), I(100))
                                        ELSE Zero,
         profitFactor |-> IF Gt(totalLossPnl, Zero) THEN Div(totalWinPnl, totalLossPnl)
                                                    ELSE Infinity,
         finalEquity |-> st.equity, totalTrades |-> totalTrades]

BacktestResultsAlways(st, capital) == ResultsWithoutEarlyReturn(st, capital)

\* lines 650-674: the results of the loop state st of a run started with this capital
BacktestResultsOf(st, capital) ==
    IF Len(ClosedOf(st.executedTrades)) = 0
    THEN [trades |-> st.executedTrades, maxDrawdown |-> Zero, maxDrawdownAmount |-> Zero,
          netProfitPercent |-> Zero, winRate |-> Zero, profitFactor |-> Zero,
          finalEquity |-> st.equity, totalTrades |-> 0]
    ELSE ResultsWithoutEarlyReturn(st, capital)

BacktestResults == BacktestResultsOf(LoopState, initialCapitalForRun)

\* the loop ends (ltfData is exhausted) and runBacktest returns
BacktestReturn ==
    /\ btPc = "loop"
    /\ btResult' = <<BacktestResults>>
    /\ btPc' = "done"
    /\ UNCHANGED <<settings, startingEquity, tradeSignals, candle, equity, peakEquity,
                   maxDrawdown, maxDrawdownAmount, executedTrades, activeTrade,
                   pendingSignals>>
    /\ UNCHANGED <<smcVars, swVars, optVars>>
    /\ UNCHANGED rtVars
    /\ UNCHANGED wkVars

BtNext == BacktestStep \/ BacktestReturn

\* no backtest is running
BtOff ==
    /\ startingEquity = <<>>
    /\ tradeSignals = <<>>
    /\ candle = NoCandle
    /\ equity = Zero
    /\ peakEquity = Zero
    /\ maxDrawdown = Zero
    /\ maxDrawdownAmount = Zero
    /\ executedTrades = <<>>
    /\ activeTrade = 0
    /\ pendingSignals = <<>>
    /\ btResult = <<>>
    /\ btPc = "off"

\* no analysis is running
SmcOff ==
    /\ potentialPois = <<>>
    /\ activePois = <<>>
    /\ monitoredPoi = <<>>
    /\ ltfDataForChoch = <<>>
    /\ currentLtfCandle = NoCandle
    /\ allTrades = <<>>
    /\ allDrawings = <<>>
    /\ episodes = <<>>
    /\ smcResult = <<>>
    /\ smcPc = "off"
    /\ seriesLen = <<>>
    /\ smcDrawings = <<>>
    /\ LegOff

\* findSwingPoints is not called on its own
SwOff ==
    /\ swData = <<>>
    /\ swLookback = 0
    /\ swResult = <<>>
    /\ swPc = "off"

\* no optimization is running
OptOff ==
    /\ baseSettings = <<>>
    /\ optimizerSettings = <<>>
    /\ chartData = <<>>
    /\ keyIndex = 0
    /\ rangeV = <<>>
    /\ rangeValues = <<>>
    /\ paramsToOptimize = <<>>
    /\ combinations = <<>>
    /\ runs = <<>>
    /\ optI = 0
    /\ analyses = 0
    /\ analysis = <<>>
    /\ optResult = <<>>
    /\ optError = <<>>
    /\ optPc = "off"

\* retry is not called
RetryOff ==
    /\ attempts = 0
    /\ delay = 0
    /\ rtI = 0
    /\ rtResult = <<>>
    /\ rtLog = <<>>
    /\ rtPc = "off"

\* the worker is not followed
WorkerOff ==
    /\ kv = <<>>
    /\ requests = <<>>
    /\ wkPc = "off"

BacktestInit == BtInit /\ SmcOff /\ SwOff /\ OptOff /\ RetryOff /\ WorkerOff

SpecBacktest == BacktestInit /\ [][BtNext]_vars

\* ------------------------------------------------------------ Swing Detector
SwingPoint(c, kind) ==
    [time |-> c.time, price |-> IF kind = "high" THEN c.high ELSE c.low, type |-> kind]

\* lines 307-310 for one index k of data
IsSwing(data, lookback, k, kind) ==
    \A j \in 1 .. lookback :
        IF kind = "high"
        THEN ~(data[k].high < data[k - j].high \/ data[k].high <= data[k + j].high)
        ELSE ~(data[k].low > data[k - j].low \/ data[k].low >= data[k + j].low)

RECURSIVE SwingsFrom(_, _, _, _)
\* the swings of one kind at the indices k, k+1, ... of the loop of line 304
SwingsFrom(data, lookback, k, kind) ==
    IF k > Len(data) - lookback THEN <<>>
    ELSE (IF IsSwing(data, lookback, k, kind) THEN <<SwingPoint(data[k], kind)>> ELSE <<>>)
         \o SwingsFrom(data, lookback, k + 1, kind)

\* lines 298-315
findSwingPoints(data, lookback) ==
    IF Len(data) < lookback * 2 + 1 THEN [highs |-> <<>>, lows |-> <<>>]
    ELSE [highs |-> SwingsFrom(data, lookback, lookback + 1, "high"),
          lows |-> SwingsFrom(data, lookback, lookback + 1, "low")]

\* the longest series findSwingPoints is called with on its own
MaxSwing == 5

SwLookbacks == {1, 2}

\* the candles findSwingPoints reads: it uses time, high and low only
SwingSeries(n) ==
    {[k \in 1 .. n |-> Candle(k, shapes[k][1], shapes[k][2], shapes[k][1], shapes[k][2])] :
         shapes \in [1 .. n -> BtCandleShapes]}

\* line 298: findSwingPoints is called
SwInit ==
    /\ swLookback \in SwLookbacks
    /\ \E n \in 0 .. MaxSwing : swData \in SwingSeries(n)
    /\ swResult = <<>>
    /\ swPc = "call"

\* lines 298-315: findSwingPoints returns
FindSwings ==
    /\ swPc = "call"
    /\ swResult' = <<findSwingPoints(swData, swLookback)>>
    /\ swPc' = "done"
    /\ UNCHANGED <<swData, swLookback>>
    /\ UNCHANGED <<settings, btVars, smcVars, optVars>>
    /\ UNCHANGED rtVars
    /\ UNCHANGED wkVars

\* findSwingPoints reads no setting
SwingInit ==
    /\ SwInit /\ settings = BtSettings(I(1), 0, 10, FALSE)
    /\ BtOff /\ SmcOff /\ OptOff /\ RetryOff /\ WorkerOff

SpecSwing == SwingInit /\ [][FindSwings]_vars

\* --------------------------------------------------------------- Entry Tracker
\* line 322: the shortest MTF and LTF series analyzeSMC analyses
MinSeriesLen == 10

\* LTF candles <<open, high, low, close>>: a doji on the lowest and on the highest price,
\* a bullish candle on the lowest tick, a bearish candle on the highest tick, and a bearish
\* candle over the whole price range
LtfCandleShapes ==
    {<<1, 1, 1, 1>>,
     <<TopPrice, TopPrice, TopPrice, TopPrice>>,
     <<1, 2, 1, 2>>,
     <<TopPrice, TopPrice, TopPrice - 1, TopPrice - 1>>,
     <<TopPrice, TopPrice, 1, 1>>}

Poi(start, top, bottom, direction) ==
    [startTime |-> start, endTime |-> start, top |-> top, bottom |-> bottom,
     direction |-> direction]

\* POIs are the range of an MTF candle with a body (lines 369-375, 415-421): one tick high
PoiDomain ==
    {Poi(t, b + 1, b, dir) : t \in PoiStarts, b \in Prices \ {TopPrice}, dir \in Directions}

SmcSettings(lookback, slType, fixedSl, rr) ==
    [htfSwingLookback |-> 1, ltfChochLookback |-> lookback, slType |-> slType,
     fixedSlValue |-> fixedSl, initialCapital |-> 100, orderSizePercent |-> 10,
     rrRatio |-> rr, commissionPercent |-> 0, filterByCommission |-> FALSE]

SmcSettingsDomain ==
    {SmcSettings(1, "structure", 0, I(2)), SmcSettings(1, "fixed", 0, I(2)),
     SmcSettings(1, "fixed", 50, I(1))}

\* lines 427-431: sorted by startTime, no two POIs with the same (startTime, top, bottom).
\* A POI takes its startTime, top and bottom from one MTF candle (lines 369-375, 415-421)
\* and MTF times are unique, so POIs that differ have different startTimes.
IsPoiList(ps) == \A k \in 1 .. Len(ps) - 1 : ps[k].startTime < ps[k + 1].startTime

IsInvalidatedSwapped(poi, c) ==
    \/ poi.direction = "Bearish" /\ c.low < poi.bottom
    \/ poi.direction = "Bullish" /\ c.high > poi.top

\* lines 444-445
IsInvalidated(poi, c) ==
    \/ poi.direction = "Bullish" /\ c.low < poi.bottom
    \/ poi.direction = "Bearish" /\ c.high > poi.top

\* lines 517-518
HasEntered(poi, c) ==
    \/ poi.direction = "Bullish" /\ c.low <= poi.top /\ c.high >= poi.bottom
    \/ poi.direction = "Bearish" /\ c.high >= poi.bottom /\ c.low <= poi.top

\* lines 459-460, 486-487: the swing the CHoCH breaks, <<>> when no CHoCH fires
ChochSwing(poi, swings, c) ==
    LET level == IF poi.direction = "Bullish" THEN swings.highs ELSE swings.lows
    IN  IF level = <<>> THEN <<>>
        ELSE IF poi.direction = "Bullish" /\ c.high > Last(level).price THEN <<Last(level)>>
        ELSE IF poi.direction = "Bearish" /\ c.low < Last(level).price THEN <<Last(level)>>
        ELSE <<>>

\* lines 464, 491: chochLowPoint / chochHighPoint, <<>> when there is none
ChochLegStart(poi, swings, c) ==
    LET opposite == IF poi.direction = "Bullish" THEN swings.lows ELSE swings.highs
        before == SelectSeq(opposite, LAMBDA w : w.time < c.time)
    IN  IF before = <<>> THEN <<>> ELSE <<Last(before)>>

\* lines 469-470, 496-497: the entry order block, <<>> when there is none
EntryOB(poi, buffer, legStart, c) ==
    LET entryLegCandles ==
            SelectSeq(buffer, LAMBDA x : x.time >= legStart.time /\ x.time <= c.time)
        coloured == SelectSeq(entryLegCandles,
                              LAMBDA x : IF poi.direction = "Bullish" THEN x.open > x.close
                                                                      ELSE x.open < x.close)
    IN  IF coloured = <<>> THEN <<>> ELSE <<Last(coloured)>>

\* lines 473-475, 500-502
EntryPrice(poi, ob) == IF poi.direction = "Bullish" THEN I(ob.high) ELSE I(ob.low)

StopLoss(poi, ob, legStart) ==
    IF settings.slType = "structure" THEN I(legStart.price)
    ELSE IF poi.direction = "Bullish"
         THEN Mul(EntryPrice(poi, ob), Sub(I(1), Div(I(settings.fixedSlValue), I(100))))
         ELSE Mul(EntryPrice(poi, ob), Add(I(1), Div(I(settings.fixedSlValue), I(100))))

Risk(poi, ob, legStart) ==
    IF poi.direction = "Bullish" THEN Sub(EntryPrice(poi, ob), StopLoss(poi, ob, legStart))
                                 ELSE Sub(StopLoss(poi, ob, legStart), EntryPrice(poi, ob))

NewSignalTargetAtRisk(poi, ob, legStart) ==
    [entryTime |-> ob.time,
     entryPrice |-> EntryPrice(poi, ob),
     stopLoss |-> StopLoss(poi, ob, legStart),
     takeProfit |->
         IF poi.direction = "Bullish"
         THEN Add(EntryPrice(poi, ob), Risk(poi, ob, legStart))
         ELSE Sub(EntryPrice(poi, ob), Risk(poi, ob, legStart)),
     type |-> poi.direction]

NewSignalAtPoiStart(poi, ob, legStart) ==
    [entryTime |-> poi.startTime,
     entryPrice |-> EntryPrice(poi, ob),
     stopLoss |-> StopLoss(poi, ob, legStart),
     takeProfit |->
         IF poi.direction = "Bullish"
         THEN Add(EntryPrice(poi, ob), Mul(Risk(poi, ob, legStart), settings.rrRatio))
         ELSE Sub(EntryPrice(poi, ob), Mul(Risk(poi, ob, legStart), settings.rrRatio)),
     type |-> poi.direction]

\* lines 477-479, 504-506
NewSignal(poi, ob, legStart) ==
    [entryTime |-> ob.time,
     entryPrice |-> EntryPrice(poi, ob),
     stopLoss |-> StopLoss(poi, ob, legStart),
     takeProfit |->
         IF poi.direction = "Bullish"
         THEN Add(EntryPrice(poi, ob), Mul(Risk(poi, ob, legStart), settings.rrRatio))
         ELSE Sub(EntryPrice(poi, ob), Mul(Risk(poi, ob, legStart), settings.rrRatio)),
     type |-> poi.direction]

\* lines 472-482, 499-509: the signals after the CHoCH of poi
PushSignal(trades, poi, buffer, legStart, c) ==
    LET ob == EntryOB(poi, buffer, legStart, c) IN
    IF ob = <<>> THEN trades
    ELSE IF ~Gt(Risk(poi, ob[1], legStart), Zero) THEN trades
    ELSE IF \E k \in 1 .. Len(trades) : trades[k].entryTime = ob[1].time THEN trades
    ELSE Append(trades, NewSignal(poi, ob[1], legStart))

IdleKeepingBuffer(st) == [st EXCEPT !.monitoredPoi = <<>>]

\* monitoredPoi = null; ltfDataForChoch = [] (lines 448-449, 466, 483, 493, 510)
Idle(st) == [st EXCEPT !.monitoredPoi = <<>>, !.ltfDataForChoch = <<>>]

Note(eps, chochs, signals) ==
    [eps EXCEPT ![Len(eps)].chochs = @ + chochs, ![Len(eps)].signals = @ + signals]

\* lines 458-512: the buffer is long enough for swings
ChochStep(st, poi, buffer, c) ==
    LET swings == findSwingPoints(buffer, settings.ltfChochLookback)
        broken == ChochSwing(poi, swings, c)
        legStart == ChochLegStart(poi, swings, c)
        drawn == Append(st.allDrawings,
                        [type |-> "CHoCH", data |-> [time |-> c.time, price |-> broken[1].price]])
    IN  IF broken = <<>> THEN [st EXCEPT !.ltfDataForChoch = buffer]
        ELSE IF legStart = <<>>
        THEN Idle([st EXCEPT !.allDrawings = drawn, !.episodes = Note(@, 1, 0)])
        ELSE LET pushed == PushSignal(st.allTrades, poi, buffer, legStart[1], c)
             IN  Idle([st EXCEPT !.allDrawings = drawn,
                                 !.allTrades = pushed,
                                 !.episodes = Note(@, 1, Len(pushed) - Len(st.allTrades))])

MonitorStepDroppingCandle(st, c) ==
    LET poi == st.monitoredPoi[1]
        buffer == Append(st.ltfDataForChoch, c)
    IN  IF IsInvalidated(poi, c) THEN Idle(st)
        ELSE IF Len(buffer) < settings.ltfChochLookback * 2 + 1
        THEN st
        ELSE ChochStep(st, poi, buffer, c)

\* lines 443-512: the loop body while a POI is monitored
MonitorStep(st, c) ==
    LET poi == st.monitoredPoi[1]
        buffer == Append(st.ltfDataForChoch, c)
    IN  IF IsInvalidated(poi, c) THEN Idle(st)
        ELSE IF Len(buffer) < settings.ltfChochLookback * 2 + 1
        THEN [st EXCEPT !.ltfDataForChoch = buffer]
        ELSE ChochStep(st, poi, buffer, c)

LatestEntered(pois, c) ==
    LET hits == {k \in 1 .. Len(pois) : ~(c.time < pois[k].startTime) /\ HasEntered(pois[k], c)}
    IN  IF hits = {} THEN 0 ELSE CHOOSE k \in hits : \A j \in hits : k >= j

\* the first POI of the scan of line 514 that c enters, 0 if none
FirstEntered(pois, c) ==
    LET hits == {k \in 1 .. Len(pois) : ~(c.time < pois[k].startTime) /\ HasEntered(pois[k], c)}
    IN  IF hits = {} THEN 0 ELSE CHOOSE k \in hits : \A j \in hits : k <= j

EnterStepTestingCandle(st, c) ==
    LET k == FirstEntered(st.activePois, c) IN
    IF k = 0 THEN st
    ELSE LET entered ==
                 [st EXCEPT !.activePois = SelectSeq(@, LAMBDA p : p # st.activePois[k]),
                            !.episodes = Append(@, [poi |-> st.activePois[k], chochs |-> 0,
                                                    signals |-> 0])]
         IN  IF IsInvalidated(st.activePois[k], c) THEN entered
             ELSE [entered EXCEPT !.monitoredPoi = <<st.activePois[k]>>,
                                  !.ltfDataForChoch = <<c>>]

EnterStepKeepingPoi(st, c) ==
    LET k == FirstEntered(st.activePois, c) IN
    IF k = 0 THEN st
    ELSE [st EXCEPT !.monitoredPoi = <<st.activePois[k]>>,
                    !.ltfDataForChoch = <<c>>,
                    !.episodes = Append(@, [poi |-> st.activePois[k], chochs |-> 0,
                                            signals |-> 0])]

\* lines 513-527: the loop body while no POI is monitored
EnterStep(st, c) ==
    LET k == FirstEntered(st.activePois, c) IN
    IF k = 0 THEN st
    ELSE [st EXCEPT !.monitoredPoi = <<st.activePois[k]>>,
                    !.ltfDataForChoch = <<c>>,
                    !.activePois = SelectSeq(@, LAMBDA p : p # st.activePois[k]),
                    !.episodes = Append(@, [poi |-> st.activePois[k], chochs |-> 0,
                                            signals |-> 0])]

TrackerState ==
    [activePois |-> activePois, monitoredPoi |-> monitoredPoi,
     ltfDataForChoch |-> ltfDataForChoch, allTrades |-> allTrades,
     allDrawings |-> allDrawings, episodes |-> episodes]

TooShortIgnoringHtf(len) == len.mtf < MinSeriesLen \/ len.ltf < MinSeriesLen

\* line 322: a series is too short to be analysed
TooShort(len) ==
    \/ len.htf < settings.htfSwingLookback * 2 + 1
    \/ len.mtf < MinSeriesLen
    \/ len.ltf < MinSeriesLen

\* the lengths of the three series: empty, one candle short, and long enough
SeriesLenDomain ==
    {[htf |-> a, mtf |-> b, ltf |-> c] :
         a \in {0, settings.htfSwingLookback * 2, settings.htfSwingLookback * 2 + 1},
         b \in {0, MinSeriesLen - 1, MinSeriesLen},
         c \in {0, MinSeriesLen - 1, MaxLtf}}

\* lines 317-438: analyzeSMC is called; activePois is the POI list of lines 427-431, which
\* is computed only when no series is too short
SmcInit ==
    /\ settings \in SmcSettingsDomain
    /\ seriesLen \in SeriesLenDomain
    /\ smcDrawings = <<>>
    /\ \E n \in PoiCounts :
           /\ activePois \in [1 .. n -> PoiDomain]
           /\ IsPoiList(activePois)
           /\ TooShort(seriesLen) => n = 0
    /\ potentialPois = activePois
    /\ monitoredPoi = <<>>
    /\ ltfDataForChoch = <<>>
    /\ currentLtfCandle = NoCandle
    /\ allTrades = <<>>
    /\ allDrawings = <<>>
    /\ episodes = <<>>
    /\ smcResult = <<>>
    /\ smcPc = "loop"
    /\ LegOff

\* one iteration of the loop of line 440
TrackerStep ==
    /\ smcPc = "loop"
    /\ ~TooShort(seriesLen)
    /\ currentLtfCandle.time < seriesLen.ltf
    /\ Len(ltfDataForChoch) < MaxBuf
    /\ \E shape \in LtfCandleShapes :
           LET c == Candle(currentLtfCandle.time + 1, shape[1], shape[2], shape[3], shape[4])
           IN  \E st \in {IF monitoredPoi # <<>> THEN MonitorStep(TrackerState, c)
                                                 ELSE EnterStep(TrackerState, c)} :
               /\ currentLtfCandle' = c
               /\ activePois' = st.activePois
               /\ monitoredPoi' = st.monitoredPoi
               /\ ltfDataForChoch' = st.ltfDataForChoch
               /\ allTrades' = st.allTrades
               /\ allDrawings' = st.allDrawings
               /\ episodes' = st.episodes
    /\ UNCHANGED <<settings, potentialPois, smcResult, smcPc, seriesLen, smcDrawings>>
    /\ UNCHANGED <<btVars, swVars, optVars>>
    /\ UNCHANGED legVars
    /\ UNCHANGED rtVars
    /\ UNCHANGED wkVars

\* lines 322-324: with a series that is too short nothing is analysed
AnalyzeShort ==
    /\ smcPc = "loop"
    /\ TooShort(seriesLen)
    /\ smcResult' = <<>>
    /\ smcDrawings' = <<>>
    /\ smcPc' = "done"
    /\ UNCHANGED <<settings, potentialPois, activePois, monitoredPoi, ltfDataForChoch,
                   currentLtfCandle, allTrades, allDrawings, episodes, seriesLen>>
    /\ UNCHANGED <<btVars, swVars, optVars>>
    /\ UNCHANGED legVars
    /\ UNCHANGED rtVars
    /\ UNCHANGED wkVars

\* lines 530-531: the LTF series is exhausted and analyzeSMC returns
AnalyzeReturn ==
    /\ smcPc = "loop"
    /\ ~TooShort(seriesLen)
    /\ currentLtfCandle.time = seriesLen.ltf
    /\ smcResult' = SortByEntryTime(allTrades)
    /\ smcDrawings' = allDrawings
    /\ smcPc' = "done"
    /\ UNCHANGED <<settings, potentialPois, activePois, monitoredPoi, ltfDataForChoch,
                   currentLtfCandle, allTrades, allDrawings, episodes, seriesLen>>
    /\ UNCHANGED <<btVars, swVars, optVars>>
    /\ UNCHANGED legVars
    /\ UNCHANGED rtVars
    /\ UNCHANGED wkVars

SmcNext == TrackerStep \/ AnalyzeShort \/ AnalyzeReturn

TrackerInit == SmcInit /\ BtOff /\ SwOff /\ OptOff /\ RetryOff /\ WorkerOff

SpecTracker == TrackerInit /\ [][SmcNext]_vars

\* ---------------------------------------------------------- Structure Analyzer
\* lines 341, 389: the swing of the impulse leg between two swings of the other kind: the
\* lowest low (kind "low") or highest high (kind "high") strictly between the times from
\* and to, the earliest of them when several share that price; <<>> when there is none
ImpulseSwing(swings, from, to, kind) ==
    LET inLeg == SelectSeq(swings, LAMBDA w : w.time > from /\ w.time < to)
        ks == {k \in 1 .. Len(inLeg) :
                   \A j \in 1 .. Len(inLeg) :
                       IF kind = "low" THEN inLeg[k].price <= inLeg[j].price
                                       ELSE inLeg[k].price >= inLeg[j].price}
    IN  IF inLeg = <<>> THEN <<>> ELSE <<inLeg[CHOOSE k \in ks : \A j \in ks : k <= j]>>

NoLiquiditySweepUnlessEqual(swings, impulse, kind) ==
    /\ settings.useLiquiditySweepFilter
    /\ LET prior == SelectSeq(swings, LAMBDA w : w.time < impulse.time)
       IN  \/ prior = <<>>
           \/ IF kind = "low" THEN impulse.price > Last(prior).price
                              ELSE impulse.price < Last(prior).price

\* lines 345-350, 393-398: the leg is skipped by the liquidity sweep filter
NoLiquiditySweep(swings, impulse, kind) ==
    /\ settings.useLiquiditySweepFilter
    /\ LET prior == SelectSeq(swings, LAMBDA w : w.time < impulse.time)
       IN  \/ prior = <<>>
           \/ IF kind = "low" THEN impulse.price >= Last(prior).price
                              ELSE impulse.price <= Last(prior).price

\* lines 352, 400: discountLevel / premiumLevel
ZoneLevel(impulse, current, direction) ==
    IF direction = "Bullish"
    THEN Add(I(impulse.price), Mul(I(current.price - impulse.price), settings.discountZone))
    ELSE Sub(I(impulse.price), Mul(I(impulse.price - current.price), settings.discountZone))

\* mtf.findIndex(c => c.time === time), 1-based; 0 for -1
FindIndex(series, time) ==
    LET ks == {k \in 1 .. Len(series) : series[k].time = time}
    IN  IF ks = {} THEN 0 ELSE CHOOSE k \in ks : \A j \in ks : k <= j

\* lines 360-367, 406-413: the candle is skipped by the FVG filter
NoFvg(series, ob, direction) ==
    /\ settings.useFvgFilter
    /\ LET k == FindIndex(series, ob.time)
       IN  \/ k = 0
           \/ k + 2 > Len(series)
           \/ IF direction = "Bullish" THEN series[k + 2].low <= ob.high
                                       ELSE series[k + 2].high >= ob.low

IsInZone(ob, level, direction) ==
    IF direction = "Bullish" THEN Lt(I(ob.high), level) ELSE Gt(I(ob.low), level)

\* lines 358, 404: an order block candle of the leg
IsOrderBlock(ob, level, direction) ==
    IF direction = "Bullish" THEN ob.open > ob.close /\ Lt(I(ob.high), level)
                             ELSE ob.open < ob.close /\ Gt(I(ob.low), level)

\* lines 353-377, 401-423: the POIs of one leg, latest candle first
LegPois(series, impulse, current, direction) ==
    LET level == ZoneLevel(impulse, current, direction)
        inLeg == SelectSeq(series, LAMBDA c : c.time >= impulse.time /\ c.time <= current.time)
        obs == SelectSeq(ReverseSeq(inLeg),
                         LAMBDA c : IsOrderBlock(c, level, direction) /\ ~NoFvg(series, c, direction))
    IN  [k \in 1 .. Len(obs) |->
             [startTime |-> obs[k].time, endTime |-> current.time, top |-> obs[k].high,
              bottom |-> obs[k].low, direction |-> direction]]

IsBosOrEqual(prev, current, direction) ==
    IF direction = "Bullish" THEN current.price >= prev.price ELSE current.price <= prev.price

\* lines 337, 385: the swing `current` breaks the structure of the swing `prev`
IsBos(prev, current, direction) ==
    IF direction = "Bullish" THEN current.price > prev.price ELSE current.price < prev.price

\* one iteration of the loop of line 334 (Bullish) or 382 (Bearish) on acc = [drawings,
\* pois]; i is the 1-based index of the current swing
LegStep(acc, swings, series, i, direction) ==
    LET main == IF direction = "Bullish" THEN swings.highs ELSE swings.lows
        other == IF direction = "Bullish" THEN swings.lows ELSE swings.highs
        kind == IF direction = "Bullish" THEN "low" ELSE "high"
        prev == main[i - 1]
        current == main[i]
        impulse == ImpulseSwing(other, prev.time, current.time, kind)
        drawn == Append(acc.drawings,
                        [type |-> "BOS",
                         data |-> [time |-> current.time, price |-> prev.price]])
    IN  IF ~IsBos(prev, current, direction) THEN acc
        ELSE IF impulse = <<>> THEN [acc EXCEPT !.drawings = drawn]
        ELSE IF NoLiquiditySweep(other, impulse[1], kind) THEN [acc EXCEPT !.drawings = drawn]
        ELSE [drawings |-> drawn,
              pois |-> acc.pois \o LegPois(series, impulse[1], current, direction)]

RECURSIVE StructureFrom(_, _, _, _, _)
\* iterations i, i+1, ... of the loop of line 334 (Bullish) or 382 (Bearish), continuing
\* from acc = [drawings, pois]; i is the 1-based index of the current swing
StructureFrom(acc, swings, series, i, direction) ==
    IF i > Len(IF direction = "Bullish" THEN swings.highs ELSE swings.lows) THEN acc
    ELSE StructureFrom(LegStep(acc, swings, series, i, direction), swings, series, i + 1,
                       direction)

RECURSIVE InsertByStart(_, _)
\* insert x after every element of the sorted sequence s with startTime <= x.startTime
InsertByStart(s, x) ==
    IF s = <<>> THEN <<x>>
    ELSE IF s[Len(s)].startTime <= x.startTime THEN Append(s, x)
    ELSE Append(InsertByStart(SubSeq(s, 1, Len(s) - 1), x), s[Len(s)])

RECURSIVE SortByStartTime(_)
\* line 428: Array.prototype.sort with a.startTime - b.startTime: stable, ascending
SortByStartTime(s) ==
    IF s = <<>> THEN <<>>
    ELSE InsertByStart(SortByStartTime(SubSeq(s, 1, Len(s) - 1)), s[Len(s)])

DedupPoisKeepingAll(s) == s

\* lines 429-431: keep the first POI of every (startTime, top, bottom)
DedupPois(s) ==
    LET same(p, q) == p.startTime = q.startTime /\ p.top = q.top /\ p.bottom = q.bottom
        keep == {k \in 1 .. Len(s) : \A j \in 1 .. k - 1 : ~same(s[j], s[k])}
        idx == [k \in 1 .. Len(s) |-> Cardinality({j \in keep : j <= k})]
    IN  [n \in 1 .. Cardinality(keep) |-> s[CHOOSE k \in keep : idx[k] = n]]

\* line 433: one POI drawing per active POI, ending at the last LTF candle
PoiDrawings(pois, endTime) ==
    [k \in 1 .. Len(pois) |-> [type |-> "POI", data |-> [pois[k] EXCEPT !.endTime = endTime]]]

\* lines 327-433: BOS drawings, the active POIs and their drawings
StructureAnalysis(chart) ==
    LET swings == findSwingPoints(chart.htf, settings.htfSwingLookback)
        bullish == StructureFrom([drawings |-> <<>>, pois |-> <<>>], swings, chart.mtf, 2,
                                 "Bullish")
        both == StructureFrom(bullish, swings, chart.mtf, 2, "Bearish")
        pois == DedupPois(SortByStartTime(both.pois))
    IN  [activePois |-> pois,
         allDrawings |-> both.drawings \o PoiDrawings(pois, Last(chart.ltf).time)]

\* line 322 for the series of a chart
ChartTooShort(chart) ==
    TooShort([htf |-> Len(chart.htf), mtf |-> Len(chart.mtf), ltf |-> Len(chart.ltf)])

RECURSIVE TrackFrom(_, _, _)
\* iterations i, i+1, ... of the loop of line 440 on the tracker state st
TrackFrom(st, ltf, i) ==
    IF i > Len(ltf) THEN st
    ELSE TrackFrom(IF st.monitoredPoi # <<>> THEN MonitorStep(st, ltf[i])
                                             ELSE EnterStep(st, ltf[i]),
                   ltf, i + 1)

analyzeSMCKeepingDrawings(chart) ==
    IF ChartTooShort(chart) THEN [trades |-> <<>>, drawings |-> <<>>]
    ELSE LET structure == StructureAnalysis(chart)
             kept == IF analysis = <<>> THEN <<>> ELSE analysis.drawings
             final == TrackFrom([activePois |-> structure.activePois, monitoredPoi |-> <<>>,
                                 ltfDataForChoch |-> <<>>, allTrades |-> <<>>,
                                 allDrawings |-> kept \o structure.allDrawings,
                                 episodes |-> <<>>],
                                chart.ltf, 1)
         IN  [trades |-> SortByEntryTime(final.allTrades), drawings |-> final.allDrawings]

\* lines 317-532
analyzeSMC(chart) ==
    IF ChartTooShort(chart) THEN [trades |-> <<>>, drawings |-> <<>>]
    ELSE LET structure == StructureAnalysis(chart)
             final == TrackFrom([activePois |-> structure.activePois, monitoredPoi |-> <<>>,
                                 ltfDataForChoch |-> <<>>, allTrades |-> <<>>,
                                 allDrawings |-> structure.allDrawings, episodes |-> <<>>],
                                chart.ltf, 1)
         IN  [trades |-> SortByEntryTime(final.allTrades), drawings |-> final.allDrawings]

RECURSIVE BacktestFrom(_, _, _)
\* iterations i, i+1, ... of the loop of line 547 on the loop state st
BacktestFrom(st, ltfData, i) ==
    IF i > Len(ltfData) THEN st
    ELSE BacktestFrom(OpenStep(CloseStep(st, ltfData[i]), ltfData[i]), ltfData, i + 1)

\* lines 537-675 without startingEquity
runBacktest(ltfData, signals) ==
    LET capital == I(settings.initialCapital)
        final == BacktestFrom([equity |-> capital, peakEquity |-> capital,
                               maxDrawdown |-> Zero, maxDrawdownAmount |-> Zero,
                               executedTrades |-> <<>>, activeTrade |-> 0,
                               pendingSignals |-> SortByEntryTime(signals)],
                              ltfData, 1)
    IN  BacktestResultsOf(final, capital)

\* ------------------------------------------------ Structure Analyzer: POI list
\* the most POIs the Structure Analyzer pushes before line 427
MaxPois == 3

\* lines 331-425 have pushed potentialPois, in any order and with repetitions
PoiInit ==
    /\ settings = SmcSettings(1, "structure", 0, I(2))
    /\ seriesLen = [htf |-> 3, mtf |-> MinSeriesLen, ltf |-> MaxLtf]
    /\ \E n \in 0 .. MaxPois : potentialPois \in [1 .. n -> PoiDomain]
    /\ activePois = <<>>
    /\ monitoredPoi = <<>>
    /\ ltfDataForChoch = <<>>
    /\ currentLtfCandle = NoCandle
    /\ allTrades = <<>>
    /\ allDrawings = <<>>
    /\ episodes = <<>>
    /\ smcResult = <<>>
    /\ smcPc = "structure"
    /\ smcDrawings = <<>>
    /\ LegOff

\* lines 427-433: sort, de-duplicate, draw
SelectPois ==
    /\ smcPc = "structure"
    /\ activePois' = DedupPois(SortByStartTime(potentialPois))
    /\ allDrawings' = allDrawings \o PoiDrawings(activePois', seriesLen.ltf)
    /\ smcPc' = "selected"
    /\ UNCHANGED <<settings, potentialPois, monitoredPoi, ltfDataForChoch, currentLtfCandle,
                   allTrades, episodes, smcResult, seriesLen, smcDrawings>>
    /\ UNCHANGED <<btVars, swVars, optVars>>
    /\ UNCHANGED legVars
    /\ UNCHANGED rtVars
    /\ UNCHANGED wkVars

StructureInit == PoiInit /\ BtOff /\ SwOff /\ OptOff /\ RetryOff /\ WorkerOff

SpecStructure == StructureInit /\ [][SelectPois]_vars

\* --------------------------------------------- Structure Analyzer: BOS legs
\* the HTF series of a structure analysis: LegHtfLen candles at the times 4, 5, ...
LegHtfLen == 7

\* HTF candles <<high, low>>; findSwingPoints reads nothing else
HtfShapes == {<<9, 2>>, <<7, 3>>, <<8, 4>>, <<9, 3>>}

\* the first and last HTF candle are no swing candidates with lookback 1
HtfBorder == <<7, 3>>

HtfCandle(k, shape) == Candle(k + 3, shape[2], shape[1], shape[2], shape[1])

HtfSeries ==
    {[k \in 1 .. LegHtfLen |->
          HtfCandle(k, IF k \in {1, LegHtfLen} THEN HtfBorder ELSE shapes[k])] :
         shapes \in [2 .. LegHtfLen - 1 -> HtfShapes]}

\* MTF candles <<open, high, low, close>>: a bearish and a bullish candle low in the
\* range, a bullish and a bearish candle around the levels of the legs
MtfShapes == {<<4, 4, 3, 3>>, <<3, 4, 3, 4>>, <<6, 7, 6, 7>>, <<6, 6, 5, 5>>}

\* the MTF candles that take every shape; the others are dojis in mid-range
MtfVaried == {7, 8, 9}

MtfDoji == <<5, 5, 5, 5>>

MtfSeries ==
    {[k \in 1 .. MinSeriesLen |->
          LET shape == IF k \in MtfVaried THEN shapes[k] ELSE MtfDoji
          IN  Candle(k, shape[1], shape[2], shape[3], shape[4])] :
         shapes \in [MtfVaried -> MtfShapes]}

LegSettings(sweep, fvg) ==
    [htfSwingLookback |-> 1, ltfChochLookback |-> 1, discountZone |-> Num(1, 2),
     useFvgFilter |-> fvg, useLiquiditySweepFilter |-> sweep, slType |-> "structure",
     fixedSlValue |-> 0, initialCapital |-> 100, orderSizePercent |-> 10,
     rrRatio |-> I(2), commissionPercent |-> 0, filterByCommission |-> FALSE]

\* lines 317-325: analyzeSMC is called with series that pass the guard of line 322
LegInit ==
    /\ \E sweep \in BOOLEAN, fvg \in BOOLEAN : settings = LegSettings(sweep, fvg)
    /\ htf \in HtfSeries
    /\ mtf \in MtfSeries
    /\ seriesLen = [htf |-> LegHtfLen, mtf |-> MinSeriesLen, ltf |-> MaxLtf]
    /\ htfSwings = <<>>
    /\ legI = 0
    /\ potentialPois = <<>>
    /\ activePois = <<>>
    /\ monitoredPoi = <<>>
    /\ ltfDataForChoch = <<>>
    /\ currentLtfCandle = NoCandle
    /\ allTrades = <<>>
    /\ allDrawings = <<>>
    /\ episodes = <<>>
    /\ smcResult = <<>>
    /\ smcPc = "swings"
    /\ smcDrawings = <<>>

\* where the loops of lines 334 and 382 stand once `pc` reaches index i (1-based) of the
\* swings it walks: the first iteration that is run, or line 427
LegPosition(pc, i, swings) ==
    IF pc = "bullish" /\ i <= Len(swings.highs) THEN <<"bullish", i>>
    ELSE IF pc = "bullish"
    THEN IF 2 <= Len(swings.lows) THEN <<"bearish", 2>> ELSE <<"structure", 0>>
    ELSE IF i <= Len(swings.lows) THEN <<"bearish", i>> ELSE <<"structure", 0>>

\* lines 327-329: the HTF swings, each list in time order
HtfSwings ==
    /\ smcPc = "swings"
    /\ htfSwings' = findSwingPoints(htf, settings.htfSwingLookback)
    /\ LET at == LegPosition("bullish", 2, htfSwings')
       IN  smcPc' = at[1] /\ legI' = at[2]
    /\ UNCHANGED <<settings, htf, mtf, potentialPois, activePois, monitoredPoi,
                   ltfDataForChoch, currentLtfCandle, allTrades, allDrawings, episodes,
                   smcResult, seriesLen, smcDrawings>>
    /\ UNCHANGED <<btVars, swVars, optVars>>
    /\ UNCHANGED rtVars
    /\ UNCHANGED wkVars

\* one iteration of the loop of line 334 (smcPc = "bullish") or of line 382 ("bearish")
LegIteration(direction) ==
    LET acc == LegStep([drawings |-> allDrawings, pois |-> potentialPois], htfSwings, mtf,
                       legI, direction)
        at == LegPosition(smcPc, legI + 1, htfSwings)
    IN  /\ allDrawings' = acc.drawings
        /\ potentialPois' = acc.pois
        /\ smcPc' = at[1]
        /\ legI' = at[2]
        /\ UNCHANGED <<settings, htf, mtf, htfSwings, activePois, monitoredPoi,
                       ltfDataForChoch, currentLtfCandle, allTrades, episodes, smcResult,
                       seriesLen, smcDrawings>>
        /\ UNCHANGED <<btVars, swVars, optVars>>
        /\ UNCHANGED rtVars
        /\ UNCHANGED wkVars

\* lines 334-379
BullishLeg == smcPc = "bullish" /\ LegIteration("Bullish")

\* lines 382-425
BearishLeg == smcPc = "bearish" /\ LegIteration("Bearish")

LegsInit == LegInit /\ BtOff /\ SwOff /\ OptOff /\ RetryOff /\ WorkerOff

LegNext == HtfSwings \/ BullishLeg \/ BearishLeg \/ SelectPois

SpecLegs == LegsInit /\ [][LegNext]_vars

\* ------------------------------------------------------------------ Optimizer
\* line 725: the most combinations runOptimizer evaluates
MaxCombinations == 500

\* the most values the range loop of line 687 is followed for
MaxRange == 170

\* the longest run list whose evaluation orders are enumerated
MaxPermuted == 4

\* Object.keys(optimizerSettings) in the order of the fields of OptimizerSettings
OptimizerKeys == <<"htfSwingLookback", "ltfChochLookback", "discountZone", "rrRatio",
                   "targetMetric">>

OptimizerParameter(enabled, start, end, step) ==
    [enabled |-> enabled, start |-> start, end |-> end, step |-> step]

Disabled == OptimizerParameter(FALSE, I(1), I(1), I(1))

Sweep(start, end, step) == OptimizerParameter(TRUE, start, end, step)

OptimizerSettings(lookbacks, choch, zone, rr, metric) ==
    [htfSwingLookback |-> lookbacks, ltfChochLookback |-> choch, discountZone |-> zone,
     rrRatio |-> rr, targetMetric |-> metric]

\* the whole equity is risked on a trade, so that a full loss leaves no equity
OptBaseSettings(rr) ==
    [htfSwingLookback |-> 1, ltfChochLookback |-> 1, discountZone |-> Num(1, 2),
     useFvgFilter |-> FALSE, useLiquiditySweepFilter |-> FALSE, slType |-> "structure",
     fixedSlValue |-> 0, initialCapital |-> 100, orderSizePercent |-> 100,
     rrRatio |-> rr, commissionPercent |-> 0, filterByCommission |-> FALSE]

\* 28 candles <<open, high, low, close>> of the finest time frame, times 1 .. 28: a swing
\* high at 20, a low at 8, a higher high at 24 (a bullish BOS), and two returns to 8
FineSeries ==
    << <<17, 18, 16, 17>>, <<17, 18, 17, 18>>, <<18, 18, 17, 17>>, <<17, 18, 17, 18>>,
       <<18, 19, 18, 19>>, <<19, 20, 19, 20>>, <<20, 20, 18, 18>>, <<18, 18, 15, 15>>,
       <<15, 15, 11, 11>>, <<11, 11, 8, 9>>, <<9, 11, 9, 11>>, <<11, 13, 11, 13>>,
       <<13, 14, 12, 12>>, <<12, 13, 10, 10>>, <<10, 18, 10, 18>>, <<18, 24, 18, 23>>,
       <<23, 23, 16, 16>>, <<16, 16, 12, 12>>, <<12, 12, 8, 9>>, <<9, 14, 9, 13>>,
       <<13, 13, 12, 13>>, <<13, 15, 13, 15>>, <<15, 15, 8, 10>>, <<10, 11, 10, 11>>,
       <<11, 13, 11, 12>>, <<12, 12, 10, 11>>, <<11, 12, 11, 12>>, <<12, 14, 12, 14>> >>

SeqMax(s) == CHOOSE x \in {s[k] : k \in DOMAIN s} : \A k \in DOMAIN s : s[k] <= x

SeqMin(s) == CHOOSE x \in {s[k] : k \in DOMAIN s} : \A k \in DOMAIN s : x <= s[k]

\* the candles of FineSeries from index `from` on, n of them merged into one candle
Aggregate(n, from) ==
    [k \in 1 .. ((Len(FineSeries) - from + 1) \div n) |->
        LET first == from + (k - 1) * n
            group == SubSeq(FineSeries, first, first + n - 1)
        IN  Candle(first, group[1][1], SeqMax([j \in 1 .. n |-> group[j][2]]),
                   SeqMin([j \in 1 .. n |-> group[j][3]]), group[n][4])]

\* ChartData: the HTF candle is 4 and the MTF candle 2 fine candles, the LTF series is the
\* last 12 fine candles
TrendChart == [htf |-> Aggregate(4, 1), mtf |-> Aggregate(2, 1), ltf |-> Aggregate(1, 17)]

EmptyChart == [htf |-> <<>>, mtf |-> <<>>, ltf |-> <<>>]

OptimizerTargets ==
    {"maxDrawdown", "maxDrawdownAmount", "netProfitPercent", "winRate", "profitFactor",
     "totalTrades", "finalEquity"}

OptimizerRun(chart, base, opt) == [chart |-> chart, base |-> base, opt |-> opt]

\* the calls of runOptimizer: nothing enabled; one and two parameters swept, under every
\* target metric; ranges that are empty, that make 500 and 501 combinations, and ranges
\* with a zero and a negative step
OptimizerRuns ==
    {OptimizerRun(TrendChart, OptBaseSettings(Num(1, 2)),
                  OptimizerSettings(Disabled, Disabled, Disabled, Disabled, "netProfitPercent"))}
    \cup
    {OptimizerRun(TrendChart, OptBaseSettings(I(1)),
                  OptimizerSettings(Sweep(I(1), I(2), I(1)), Disabled, Disabled,
                                    Sweep(Num(1, 2), Num(3, 2), I(1)), m)) :
         m \in OptimizerTargets}
    \cup
    {OptimizerRun(TrendChart, OptBaseSettings(Num(3, 2)),
                  OptimizerSettings(Sweep(I(1), I(2), I(1)), Disabled, Disabled, Disabled, m)) :
         m \in OptimizerTargets}
    \cup
    {OptimizerRun(TrendChart, OptBaseSettings(I(1)),
                  OptimizerSettings(Disabled, Disabled, Disabled, rr, "netProfitPercent")) :
         rr \in {Sweep(I(1), I(2), I(1)), Sweep(Num(3, 2), I(2), Num(1, 2)),
                 Sweep(I(2), I(1), I(1)), Sweep(I(2), I(1), I(-1)),
                 Sweep(I(1), I(2), I(0))}}
    \cup
    {OptimizerRun(TrendChart, OptBaseSettings(Num(1, 2)),
                  OptimizerSettings(Disabled, Disabled,
                                    Sweep(Num(1, 4), Num(3, 4), Num(1, 4)), Disabled,
                                    "finalEquity"))}
    \cup
    {OptimizerRun(EmptyChart, OptBaseSettings(I(1)),
                  OptimizerSettings(Sweep(I(1), I(20), I(1)), Sweep(I(1), I(25), I(1)),
                                    Disabled, Disabled, "netProfitPercent")),
     OptimizerRun(EmptyChart, OptBaseSettings(I(1)),
                  OptimizerSettings(Sweep(I(1), I(3), I(1)), Disabled, Disabled,
                                    Sweep(I(1), I(167), I(1)), "netProfitPercent"))}

\* line 684: the forEach callback expands this key
IsSwept(key) == key # "targetMetric" /\ optimizerSettings[key].enabled

InRangeExclusive(v, end) == Lt(v, end)

\* line 687: the condition of the range loop
InRange(v, end) == Le(v, end)

\* the concatenation of sequences that all have the same length
Concat(parts) ==
    LET m == IF parts = <<>> THEN 0 ELSE Len(parts[1])
    IN  [n \in 1 .. Len(parts) * m |-> parts[((n - 1) \div m) + 1][((n - 1) % m) + 1]]

RECURSIVE helper(_, _, _)
\* lines 699-712: the combinations helper(combo, i) pushes, in the order of the loop over j
helper(params, combo, i) ==
    Concat([j \in 1 .. Len(params[i].values) |->
                LET nextCombo == (params[i].key :> params[i].values[j]) @@ combo
                IN  IF i = Len(params) THEN <<nextCombo>>
                    ELSE helper(params, nextCombo, i + 1)])

EmptyCombo == [k \in {} |-> Zero]

\* lines 694-713
CombinationsOf(params) ==
    IF Len(params) = 0 THEN <<EmptyCombo>> ELSE helper(params, EmptyCombo, 1)

\* a swept value as the Settings field it overrides: the lookbacks are whole numbers
AsSetting(key, v) == IF key \in {"htfSwingLookback", "ltfChochLookback"} THEN v.n ELSE v

MergeSettingsBaseLast(base, params) == base

\* line 731: { ...baseSettings, ...params }
MergeSettings(base, params) ==
    [k \in DOMAIN base |-> IF k \in DOMAIN params THEN AsSetting(k, params[k]) ELSE base[k]]

TooManyInclusive(n) == n >= MaxCombinations

\* line 725
TooMany(n) == n > MaxCombinations

\* a.results[metric] as a number
MetricOf(run, metric) ==
    IF metric = "totalTrades" THEN I(run.results.totalTrades) ELSE run.results[metric]

\* lines 741-752: the comparator of the sort
CompareRuns(a, b, metric) ==
    IF metric \in {"maxDrawdown", "maxDrawdownAmount"}
    THEN Sub(MetricOf(a, metric), MetricOf(b, metric))
    ELSE Sub(MetricOf(b, metric), MetricOf(a, metric))

\* SortCompare: a comparator result of NaN counts as +0
Before(a, b, metric) == Lt(CompareRuns(a, b, metric), Zero)

\* line 741: Array.prototype.sort, which is stable: a run comes after the runs the comparator
\* puts before it and after the earlier runs the comparator puts neither before nor after it
SortRuns(s, metric) ==
    LET rank == <<>> \o
                [k \in 1 .. Len(s) |->
                     Cardinality({j \in 1 .. Len(s) : Before(s[j], s[k], metric)}) +
                     Cardinality({j \in 1 .. k - 1 : /\ ~Before(s[j], s[k], metric)
                                                     /\ ~Before(s[k], s[j], metric)}) + 1]
    IN  <<>> \o [n \in 1 .. Len(s) |-> s[CHOOSE k \in 1 .. Len(s) : rank[k] = n]]

\* lines 741-757 alone: runs[0] of an empty list is undefined, not null
OptimizationResultsNoNull(rs, metric) ==
    LET sorted == SortRuns(rs, metric)
    IN  [runs |-> sorted, bestRun |-> <<IF sorted = <<>> THEN "undefined" ELSE sorted[1]>>]

\* lines 739-757: bestRun is <<>> for null, else <<run>>
OptimizationResults(rs, metric) ==
    IF Len(rs) = 0 THEN [runs |-> <<>>, bestRun |-> <<>>]
    ELSE LET sorted == SortRuns(rs, metric)
         IN  [runs |-> sorted, bestRun |-> <<sorted[1]>>]

\* lines 717-722: runOptimizer is called and generateCombinations starts
OptInit ==
    /\ \E run \in OptimizerRuns :
           /\ chartData = run.chart
           /\ baseSettings = run.base
           /\ optimizerSettings = run.opt
    /\ settings = baseSettings
    /\ keyIndex = 1
    /\ rangeV = <<>>
    /\ rangeValues = <<>>
    /\ paramsToOptimize = <<>>
    /\ combinations = <<>>
    /\ runs = <<>>
    /\ optI = 0
    /\ analyses = 0
    /\ analysis = <<>>
    /\ optResult = <<>>
    /\ optError = <<>>
    /\ optPc = "expand"

\* lines 683-686, 691: the forEach callback is entered for the next key
ExpandKey ==
    /\ optPc = "expand"
    /\ keyIndex <= Len(OptimizerKeys)
    /\ rangeV = <<>>
    /\ IF IsSwept(OptimizerKeys[keyIndex])
       THEN /\ rangeV' = <<optimizerSettings[OptimizerKeys[keyIndex]].start>>
            /\ keyIndex' = keyIndex
       ELSE /\ rangeV' = <<>>
            /\ keyIndex' = keyIndex + 1
    /\ rangeValues' = <<>>
    /\ UNCHANGED <<baseSettings, optimizerSettings, chartData, paramsToOptimize, combinations,
                   runs, optI, analyses, analysis, optResult, optError, optPc>>
    /\ UNCHANGED <<settings, btVars, smcVars, swVars>>
    /\ UNCHANGED rtVars
    /\ UNCHANGED wkVars

\* lines 687-689: one iteration of the range loop
RangeStep ==
    /\ optPc = "expand"
    /\ rangeV # <<>>
    /\ Len(rangeValues) < MaxRange
    /\ InRange(rangeV[1], optimizerSettings[OptimizerKeys[keyIndex]].end)
    /\ rangeValues' = Append(rangeValues, rangeV[1])
    /\ rangeV' = <<Add(rangeV[1], optimizerSettings[OptimizerKeys[keyIndex]].step)>>
    /\ UNCHANGED <<baseSettings, optimizerSettings, chartData, keyIndex, paramsToOptimize,
                   combinations, runs, optI, analyses, analysis, optResult, optError, optPc>>
    /\ UNCHANGED <<settings, btVars, smcVars, swVars>>
    /\ UNCHANGED rtVars
    /\ UNCHANGED wkVars

\* lines 687, 690: the range loop ends
RangeEnd ==
    /\ optPc = "expand"
    /\ rangeV # <<>>
    /\ ~InRange(rangeV[1], optimizerSettings[OptimizerKeys[keyIndex]].end)
    /\ paramsToOptimize' =
           Append(paramsToOptimize, [key |-> OptimizerKeys[keyIndex], values |-> rangeValues])
    /\ rangeV' = <<>>
    /\ rangeValues' = <<>>
    /\ keyIndex' = keyIndex + 1
    /\ UNCHANGED <<baseSettings, optimizerSettings, chartData, combinations, runs, optI,
                   analyses, analysis, optResult, optError, optPc>>
    /\ UNCHANGED <<settings, btVars, smcVars, swVars>>
    /\ UNCHANGED rtVars
    /\ UNCHANGED wkVars

\* lines 694-713, 722: generateCombinations returns
Generate ==
    /\ optPc = "expand"
    /\ keyIndex > Len(OptimizerKeys)
    /\ combinations' = CombinationsOf(paramsToOptimize)
    /\ optPc' = "generated"
    /\ UNCHANGED <<baseSettings, optimizerSettings, chartData, keyIndex, rangeV, rangeValues,
                   paramsToOptimize, runs, optI, analyses, analysis, optResult, optError>>
    /\ UNCHANGED <<settings, btVars, smcVars, swVars>>
    /\ UNCHANGED rtVars
    /\ UNCHANGED wkVars

\* lines 725-727
Throw ==
    /\ optPc = "generated"
    /\ TooMany(Len(combinations))
    /\ optError' = <<Len(combinations)>>
    /\ optPc' = "error"
    /\ UNCHANGED <<baseSettings, optimizerSettings, chartData, keyIndex, rangeV, rangeValues,
                   paramsToOptimize, combinations, runs, optI, analyses, analysis, optResult>>
    /\ UNCHANGED <<settings, btVars, smcVars, swVars>>
    /\ UNCHANGED rtVars
    /\ UNCHANGED wkVars

\* lines 729-731: the loop goes on and currentSettings is built
Prepare ==
    /\ optPc = "generated"
    /\ ~TooMany(Len(combinations))
    /\ optI < Len(combinations)
    /\ settings' = MergeSettings(baseSettings, combinations[optI + 1])
    /\ optPc' = "prepared"
    /\ UNCHANGED <<baseSettings, optimizerSettings, chartData, keyIndex, rangeV, rangeValues,
                   paramsToOptimize, combinations, runs, optI, analyses, analysis, optResult, optError>>
    /\ UNCHANGED <<btVars, smcVars, swVars>>
    /\ UNCHANGED rtVars
    /\ UNCHANGED wkVars

\* lines 733-736: the analysis and the backtest under currentSettings
Evaluate ==
    /\ optPc = "prepared"
    /\ analysis' = analyzeSMC(chartData)
    /\ runs' = Append(runs, [id |-> optI, params |-> combinations[optI + 1],
                             results |-> runBacktest(chartData.ltf, analysis'.trades)])
    /\ optI' = optI + 1
    /\ analyses' = analyses + 1
    /\ optPc' = "generated"
    /\ UNCHANGED <<baseSettings, optimizerSettings, chartData, keyIndex, rangeV, rangeValues,
                   paramsToOptimize, combinations, optResult, optError>>
    /\ UNCHANGED <<settings, btVars, smcVars, swVars>>
    /\ UNCHANGED rtVars
    /\ UNCHANGED wkVars

\* lines 729, 739-757: the loop ends and runOptimizer returns
Return ==
    /\ optPc = "generated"
    /\ ~TooMany(Len(combinations))
    /\ optI = Len(combinations)
    /\ optResult' = <<OptimizationResults(runs, optimizerSettings.targetMetric)>>
    /\ optPc' = "done"
    /\ UNCHANGED <<baseSettings, optimizerSettings, chartData, keyIndex, rangeV, rangeValues,
                   paramsToOptimize, combinations, runs, optI, analyses, analysis, optError>>
    /\ UNCHANGED <<settings, btVars, smcVars, swVars>>
    /\ UNCHANGED rtVars
    /\ UNCHANGED wkVars

OptNext == ExpandKey \/ RangeStep \/ RangeEnd \/ Generate \/ Throw \/ Prepare \/ Evaluate \/ Return

OptimizerInit == OptInit /\ BtOff /\ SmcOff /\ SwOff /\ RetryOff /\ WorkerOff

SpecOptimizer == OptimizerInit /\ [][OptNext]_vars

\* -------------------------------------------------- claims: Backtest Simulator
OpenTrades == {k \in DOMAIN executedTrades : executedTrades[k].outcome = "Open"}

\* C1: at every candle step at most one executed trade is Open, an Open trade is exactly
\* the active trade, and no trade was opened while another was active: every trade but
\* the last is closed, and closed no later than the next trade was opened.
C1_SingleOpenTrade ==
    /\ Cardinality(OpenTrades) <= 1
    /\ \A k \in DOMAIN executedTrades : (k \in OpenTrades) <=> (k = activeTrade)
    /\ activeTrade \in {0} \cup DOMAIN executedTrades
    /\ \A k \in 1 .. Len(executedTrades) - 1 :
           /\ executedTrades[k].outcome \in {"Win", "Loss"}
           /\ executedTrades[k].exitTime <= executedTrades[k + 1].entryTime

\* a second trade is open after the first was closed
C1_Witness ==
    /\ Len(executedTrades) >= 2
    /\ activeTrade = Len(executedTrades)
    /\ executedTrades[1].outcome = "Loss"

\* the pnl realized by the first k executed trades
RealizedPnl(k) ==
    SumSeq([j \in 1 .. k |-> IF executedTrades[j].outcome = "Open" THEN Zero
                                                                   ELSE executedTrades[j].pnl])

BothReached(t, c) ==
    IF t.type = "Bullish"
    THEN Le(I(c.low), t.slPrice) /\ Le(t.tpPrice, I(c.high))
    ELSE Le(t.slPrice, I(c.high)) /\ Le(I(c.low), t.tpPrice)

\* C3: a candle that reaches both the stop-loss and the take-profit of the active trade
\* closes it as a Loss at the stop-loss price.
C3_StopLossFirst ==
    [][(/\ activeTrade # 0
        /\ candle'.time = candle.time + 1
        /\ BothReached(executedTrades[activeTrade], candle'))
       => (/\ executedTrades'[activeTrade].outcome = "Loss"
           /\ executedTrades'[activeTrade].exitPrice = executedTrades[activeTrade].slPrice
           /\ executedTrades'[activeTrade].exitTime = candle'.time)]_vars

\* a trade of each direction was closed by a candle reaching its stop and its target
C3_Witness ==
    /\ \E k \in DOMAIN executedTrades :
           /\ executedTrades[k].exitTime = candle.time
           /\ executedTrades[k].type = "Bearish"
           /\ executedTrades[k].slPrice # executedTrades[k].tpPrice
           /\ BothReached(executedTrades[k], candle)
    /\ \E k \in DOMAIN executedTrades :
           /\ executedTrades[k].type = "Bullish"
           /\ executedTrades[k].outcome = "Loss"

\* C8 as stated: the executed trades are in non-decreasing signalTime order.
C8_SignalTimeOrder ==
    \A k \in 1 .. Len(executedTrades) - 1 :
        executedTrades[k].signalTime <= executedTrades[k + 1].signalTime

\* the scan of candle c with equity eq can open a trade for the signal
CanFill(signal, c, eq) ==
    /\ signal.entryTime <= c.time
    /\ Le(I(c.low), signal.entryPrice)
    /\ Le(signal.entryPrice, I(c.high))
    /\ signal.entryPrice # signal.stopLoss
    /\ ~CommissionFiltered(signal, eq)

\* C8 amended: the pending queue is kept in entryTime order and the trade a candle opens
\* is for the earliest pending signal that can be filled on that candle: every signal
\* with an earlier entryTime that stays pending could not be filled on it.
C8_EarliestFillable ==
    [][/\ \A k \in 1 .. Len(pendingSignals') - 1 :
              pendingSignals'[k].entryTime <= pendingSignals'[k + 1].entryTime
       /\ Len(executedTrades') > Len(executedTrades) =>
              \A k \in DOMAIN pendingSignals' :
                  pendingSignals'[k].entryTime < Last(executedTrades').signalTime
                      => ~CanFill(pendingSignals'[k], candle', equity')]_vars

\* a trade is open for a signal while a signal with an earlier entryTime, with a risk and
\* due by then, is still pending
C8_Witness ==
    /\ activeTrade # 0
    /\ \E k \in DOMAIN pendingSignals :
           /\ pendingSignals[k].entryTime < executedTrades[activeTrade].signalTime
           /\ pendingSignals[k].entryPrice # pendingSignals[k].stopLoss

\* ------------------------------------------------------ claims: Entry Tracker
Range(s) == {s[k] : k \in DOMAIN s}

\* C4: at most one POI is monitored; the monitored POI and every POI monitored before are
\* out of the active set; each POI is monitored at most once and yields at most one CHoCH
\* annotation and one signal; while a POI is monitored the active set does not change and
\* no other POI becomes the monitored one.
C4_OneMonitoredPoi ==
    /\ [](/\ Len(monitoredPoi) <= 1
          /\ \A k \in DOMAIN monitoredPoi : monitoredPoi[k] \notin Range(activePois)
          /\ \A k \in DOMAIN episodes :
                 /\ episodes[k].poi \notin Range(activePois)
                 /\ episodes[k].chochs <= 1
                 /\ episodes[k].signals <= 1
                 /\ \A j \in DOMAIN episodes : j # k => episodes[j].poi # episodes[k].poi)
    /\ [][monitoredPoi # <<>> =>
              /\ activePois' = activePois
              /\ monitoredPoi' \in {monitoredPoi, <<>>}]_vars

\* a second POI is monitored after the first gave a CHoCH and a signal, a third is queued
C4_Witness ==
    /\ Len(episodes) = 2
    /\ monitoredPoi # <<>>
    /\ episodes[1].chochs = 1
    /\ episodes[1].signals = 1

\* the candle c trades beyond the far edge of the POI
BeyondFarEdge(poi, c) ==
    IF poi.direction = "Bullish" THEN c.low < poi.bottom ELSE c.high > poi.top

\* C5: while Monitoring, a candle beyond the far edge of the monitored POI drops the POI
\* and the buffer and produces no CHoCH annotation and no signal.
C5_Invalidation ==
    [][(/\ monitoredPoi # <<>>
        /\ currentLtfCandle'.time = currentLtfCandle.time + 1
        /\ BeyondFarEdge(monitoredPoi[1], currentLtfCandle'))
       => (/\ monitoredPoi' = <<>>
           /\ ltfDataForChoch' = <<>>
           /\ allDrawings' = allDrawings
           /\ allTrades' = allTrades)]_vars

\* a POI was dropped by the current candle after its buffer had grown, and left no CHoCH
C5_Witness ==
    /\ monitoredPoi = <<>>
    /\ episodes # <<>>
    /\ Last(episodes).chochs = 0
    /\ BeyondFarEdge(Last(episodes).poi, currentLtfCandle)
    /\ currentLtfCandle.time >= Last(episodes).poi.startTime + 2

\* C6: the candle on which a CHoCH fires leaves the tracker Idle with an empty buffer,
\* whether or not it pushed a signal.
C6_ChochEndsMonitoring ==
    [][Len(allDrawings') > Len(allDrawings) =>
           /\ Last(allDrawings').type = "CHoCH"
           /\ Last(allDrawings').data.time = currentLtfCandle'.time
           /\ monitoredPoi' = <<>>
           /\ ltfDataForChoch' = <<>>]_vars

\* the current candle fired a CHoCH that pushed no signal although stops are structural
C6_Witness ==
    /\ allDrawings # <<>>
    /\ Last(allDrawings).data.time = currentLtfCandle.time
    /\ Last(episodes).signals = 0
    /\ settings.slType = "structure"
    /\ monitoredPoi = <<>>

\* the current candle fired a CHoCH that pushed a signal
C6_WitnessSignal ==
    /\ allDrawings # <<>>
    /\ Last(allDrawings).data.time = currentLtfCandle.time
    /\ Last(episodes).signals = 1

\* the current candle fired a CHoCH whose risk is zero
C6_WitnessZeroRisk ==
    /\ allDrawings # <<>>
    /\ Last(allDrawings).data.time = currentLtfCandle.time
    /\ settings.slType = "fixed"
    /\ settings.fixedSlValue = 0

\* C7: the signal list analyzeSMC returns is strictly ascending in entryTime.
C7_SignalsAscending ==
    smcPc = "done" =>
        \A k \in 1 .. Len(smcResult) - 1 : smcResult[k].entryTime < smcResult[k + 1].entryTime

\* analyzeSMC returned two signals
C7_Witness == smcPc = "done" /\ Len(smcResult) = 2

\* C9: every signal has a positive risk and its take-profit at rrRatio times the risk
\* from the entry, on the side away from the stop.
C9_RiskReward ==
    \A k \in DOMAIN allTrades :
        LET t == allTrades[k] IN
        IF t.type = "Bullish"
        THEN /\ Lt(t.stopLoss, t.entryPrice)
             /\ t.takeProfit =
                    Add(t.entryPrice, Mul(Sub(t.entryPrice, t.stopLoss), settings.rrRatio))
        ELSE /\ Lt(t.entryPrice, t.stopLoss)
             /\ t.takeProfit =
                    Sub(t.entryPrice, Mul(Sub(t.stopLoss, t.entryPrice), settings.rrRatio))

\* a Bullish and a Bearish signal were pushed with rrRatio 2
C9_Witness ==
    /\ settings.rrRatio = I(2)
    /\ \E j, k \in DOMAIN allTrades :
           allTrades[j].type = "Bullish" /\ allTrades[k].type = "Bearish"

\* a signal was pushed with a fixed-percent stop
C9_WitnessFixed == settings.slType = "fixed" /\ allTrades # <<>>

\* ----------------------------------------------------------- claims: zero risk
\* C10: zero risk is skipped silently.  analyzeSMC pushes no signal whose stop is on its
\* entry, so none at all when the stop is fixed at 0 percent; runBacktest opens no trade
\* for a signal whose stop is on its entry, and every such signal stays pending.
C10_ZeroRiskSkipped ==
    /\ \A k \in DOMAIN allTrades : allTrades[k].entryPrice # allTrades[k].stopLoss
    /\ (settings.slType = "fixed" /\ settings.fixedSlValue = 0) => allTrades = <<>>
    /\ \A k \in DOMAIN executedTrades : executedTrades[k].entryPrice # executedTrades[k].slPrice
    /\ \A k \in DOMAIN tradeSignals :
           tradeSignals[k].entryPrice = tradeSignals[k].stopLoss
               => tradeSignals[k] \in Range(pendingSignals)

\* the current candle opened a trade after the scan passed over a zero-risk signal that
\* was due and within the candle's range
C10_Witness ==
    /\ activeTrade # 0
    /\ executedTrades[activeTrade].entryTime = candle.time
    /\ \E k \in DOMAIN pendingSignals :
           /\ pendingSignals[k].entryPrice = pendingSignals[k].stopLoss
           /\ pendingSignals[k].entryTime < executedTrades[activeTrade].signalTime
           /\ Le(I(candle.low), pendingSignals[k].entryPrice)
           /\ Le(pendingSignals[k].entryPrice, I(candle.high))

\* the Entry Tracker went on to monitor a second POI after a CHoCH with zero risk
C10_WitnessTracker ==
    /\ settings.slType = "fixed"
    /\ settings.fixedSlValue = 0
    /\ Len(episodes) = 2
    /\ episodes[1].chochs = 1

\* either entry point is called
\* ------------------------------------------------------------ claims: Optimizer
\* C11: when generateCombinations yields more than 500 combinations runOptimizer fails
\* with an error carrying the count before any analysis or backtest was run and without a
\* run list; with 500 or fewer combinations it never fails, and runs are evaluated only then.
C11_TooManyRejected ==
    /\ optPc = "error" =>
           /\ Len(combinations) > 500
           /\ optError = <<Len(combinations)>>
           /\ analyses = 0
           /\ runs = <<>>
           /\ optResult = <<>>
    /\ optPc # "error" => optError = <<>>
    /\ (analyses > 0 \/ optPc \in {"prepared", "done"}) => Len(combinations) <= 500
    /\ optPc = "done" /\ Len(combinations) = 500 => Len(optResult[1].runs) = 500

\* 501 combinations were generated and rejected
C11_Witness == optPc = "error" /\ optError = <<501>>

\* exactly 500 combinations were evaluated and ranked
C11_WitnessAccepted == optPc = "done" /\ analyses = 500 /\ Len(optResult[1].runs) = 500

SweptKeys == {OptimizerKeys[k] : k \in {j \in 1 .. Len(OptimizerKeys) : IsSwept(OptimizerKeys[j])}}

\* the values start + k*step that are <= end, for the k the range loop is followed for
ArithmeticRange(p) ==
    {v \in {Add(p.start, Mul(I(k), p.step)) : k \in 0 .. MaxRange} : Le(v, p.end)}

\* the factor of a key in the number of combinations: 1 for a key that is not swept
RangeFactor(key, range(_)) ==
    IF IsSwept(key) THEN Cardinality(range(optimizerSettings[key])) ELSE 1

\* combinations is the Cartesian product of the ranges range(p) of the swept keys
IsProductOf(range(_)) ==
    /\ Len(combinations) =
           RangeFactor("htfSwingLookback", range) * RangeFactor("ltfChochLookback", range) *
           RangeFactor("discountZone", range) * RangeFactor("rrRatio", range)
    /\ \A n \in 1 .. Len(combinations) :
           /\ DOMAIN combinations[n] = SweptKeys
           /\ \A key \in SweptKeys : combinations[n][key] \in range(optimizerSettings[key])
    /\ Cardinality({combinations[n] : n \in 1 .. Len(combinations)}) = Len(combinations)

RangeFromStart(p) == IF Gt(p.start, p.end) THEN {} ELSE ArithmeticRange(p)

\* every swept parameter has a positive step or starts above its end
Ascending ==
    \A key \in SweptKeys :
        \/ Gt(optimizerSettings[key].step, Zero)
        \/ Gt(optimizerSettings[key].start, optimizerSettings[key].end)

C12_WitnessNone ==
    optPc = "generated" /\ SweptKeys = {} /\ combinations = <<EmptyCombo>>

\* a range with a negative step that starts above its end
C12_WitnessDescending ==
    /\ optPc = "generated"
    /\ Lt(optimizerSettings.rrRatio.step, Zero)
    /\ combinations = <<>>

LessIsBetter(metric) == metric \in {"maxDrawdown", "maxDrawdownAmount"}

\* run a is at least as good as run b on the metric
AtLeastAsGood(a, b, metric) ==
    IF LessIsBetter(metric) THEN Le(MetricOf(a, metric), MetricOf(b, metric))
                            ELSE Ge(MetricOf(a, metric), MetricOf(b, metric))

\* C13: the run list runOptimizer returns is ordered by the target metric, non-decreasing
\* for maxDrawdown and maxDrawdownAmount and non-increasing for every other metric, and
\* bestRun is the run at rank 0 and attains the minimum or maximum of the metric.
C13_RankedByMetric ==
    optPc = "done" /\ optResult[1].runs # <<>> =>
        LET ranked == optResult[1].runs
            metric == optimizerSettings.targetMetric
        IN  /\ \A k \in 1 .. Len(ranked) - 1 : AtLeastAsGood(ranked[k], ranked[k + 1], metric)
            /\ optResult[1].bestRun = <<ranked[1]>>
            /\ \A k \in 1 .. Len(ranked) : AtLeastAsGood(ranked[1], ranked[k], metric)

\* a ranking whose best run has no net profit figure while another run has one
C13_Witness ==
    /\ optPc = "done"
    /\ optimizerSettings.targetMetric = "netProfitPercent"
    /\ Len(optResult[1].runs) = 2
    /\ IsNaN(optResult[1].bestRun[1].results.netProfitPercent)
    /\ optResult[1].runs[2].results.netProfitPercent = I(-100)

\* rankings without NaN are ordered: a sort that moved the later run to rank 0
C13_WitnessReordered ==
    /\ optPc = "done"
    /\ Len(optResult[1].runs) = 2
    /\ optResult[1].runs[1].id = 1
    /\ Gt(MetricOf(optResult[1].runs[1], optimizerSettings.targetMetric),
          MetricOf(optResult[1].runs[2], optimizerSettings.targetMetric))

\* C13 without the runs whose target metric is NaN
C13_RankedUnlessNaN ==
    optPc = "done" /\ optResult[1].runs # <<>>
    /\ (\A k \in 1 .. Len(runs) : ~IsNaN(MetricOf(runs[k], optimizerSettings.targetMetric)))
    => C13_RankedByMetric

\* C14: when generateCombinations yields no combination, runOptimizer returns an empty run
\* list and a null bestRun, raises no error and runs no analysis and no backtest.
C14_EmptyGrid ==
    optPc # "expand" /\ combinations = <<>> =>
        /\ optPc \in {"generated", "done"}
        /\ optError = <<>>
        /\ analyses = 0
        /\ runs = <<>>
        /\ optPc = "done" => optResult = <<[runs |-> <<>>, bestRun |-> <<>>]>>

\* runOptimizer returned for a swept parameter whose range is empty
C14_Witness ==
    /\ optPc = "done"
    /\ combinations = <<>>
    /\ optimizerSettings.rrRatio.enabled
    /\ Gt(optimizerSettings.rrRatio.start, optimizerSettings.rrRatio.end)

\* the orders in which n runs can be evaluated
EvaluationOrders(n) == {p \in [1 .. n -> 1 .. n] : \A i, j \in 1 .. n : p[i] = p[j] => i = j}

\* the runs of this call pushed in the evaluation order p
RunsInOrder(p) == [k \in 1 .. Len(runs) |-> runs[p[k]]]

NoTies ==
    \A i, j \in 1 .. Len(runs) :
        i # j => \/ Before(runs[i], runs[j], optimizerSettings.targetMetric)
                 \/ Before(runs[j], runs[i], optimizerSettings.targetMetric)

\* C15 without ties: runs that differ on the target metric are ranked in one way
C15_OrderIndependentUnlessTied ==
    optPc = "done" /\ Len(runs) <= MaxPermuted /\ NoTies =>
        \A p \in EvaluationOrders(Len(runs)) :
            OptimizationResults(RunsInOrder(p), optimizerSettings.targetMetric) = optResult[1]

\* two runs that differ on the target metric
C15_WitnessUntied == optPc = "done" /\ Len(runs) = 2 /\ NoTies

\* the parameter whose range is being expanded
ExpandedParameter == optimizerSettings[OptimizerKeys[keyIndex]]

\* the range loop of line 687 leaves after at most MaxRange more iterations
RangeLoopEnds ==
    \E k \in 0 .. MaxRange :
        ~InRange(Add(rangeV[1], Mul(I(k), ExpandedParameter.step)), ExpandedParameter.end)

\* C16: generateCombinations and runOptimizer finish for every optimizer setting, whatever
\* start, end and step an enabled parameter has: whenever the range loop of an enabled
\* parameter is running, its condition v <= end fails after finitely many additions of step.
C16_RangeLoopTerminates ==
    optPc = "expand" /\ rangeV # <<>> => RangeLoopEnds

\* the loop has pushed a hundred values and v still is the start value
C16_Witness ==
    /\ optPc = "expand"
    /\ rangeV = <<optimizerSettings.rrRatio.start>>
    /\ optimizerSettings.rrRatio.step = Zero
    /\ Len(rangeValues) >= 100

\* C16 for positive steps: the range loop ends, before the bound it is followed for
C16_TerminatesWhenAscending ==
    Ascending =>
        /\ optPc = "expand" /\ rangeV # <<>> => RangeLoopEnds
        /\ Len(rangeValues) < MaxRange

\* a call with positive steps ended
C16_WitnessAscending == Ascending /\ SweptKeys # {} /\ optPc = "done"

\* ------------------------------------------------------- claims: Swing Detector
\* the indices of the series with at least lookback candles on each side
InnerIndices == {k \in 1 .. Len(swData) : k > swLookback /\ k + swLookback <= Len(swData)}

\* findSwingPoints reported the candle at index k as a swing of this kind
Reported(result, k, kind) ==
    LET points == IF kind = "high" THEN result.highs ELSE result.lows
    IN  \E n \in 1 .. Len(points) : points[n].time = k

\* the candle at index k is strictly beyond all 2*lookback neighbours
StrictExtremum(data, lookback, k, kind) ==
    \A j \in 1 .. lookback :
        IF kind = "high"
        THEN data[k].high > data[k - j].high /\ data[k].high > data[k + j].high
        ELSE data[k].low < data[k - j].low /\ data[k].low < data[k + j].low

\* C17: findSwingPoints reports an index with lookback candles on each side as a swing
\* high iff its high is strictly greater than the high of all 2*lookback neighbours, left
\* and right, and as a swing low iff its low is strictly less than all neighbouring lows.
C17_StrictOnBothSides ==
    swPc = "done" =>
        \A k \in InnerIndices : \A kind \in {"high", "low"} :
            Reported(swResult[1], k, kind) <=> StrictExtremum(swData, swLookback, k, kind)

\* a swing high is reported whose high equals the high of its left neighbour
C17_Witness ==
    /\ swPc = "done"
    /\ swLookback = 1
    /\ Len(swData) = 3
    /\ swData[1].high = swData[2].high
    /\ Reported(swResult[1], 2, "high")

\* what the loop of lines 307-310 tests: not beyond on the left, strictly beyond on the right
ExtremumFromTheRight(data, lookback, k, kind) ==
    \A j \in 1 .. lookback :
        IF kind = "high"
        THEN data[k].high >= data[k - j].high /\ data[k].high > data[k + j].high
        ELSE data[k].low <= data[k - j].low /\ data[k].low < data[k + j].low

\* C17 with the tie rule of the code: a tie on the right disqualifies, a tie on the left
\* does not; no other index is reported
C17_StrictOnTheRight ==
    swPc = "done" =>
        /\ \A k \in InnerIndices : \A kind \in {"high", "low"} :
               Reported(swResult[1], k, kind)
                   <=> ExtremumFromTheRight(swData, swLookback, k, kind)
        /\ \A k \in (1 .. Len(swData)) \ InnerIndices : \A kind \in {"high", "low"} :
               ~Reported(swResult[1], k, kind)

\* the series S reversed and turned upside down: highs become lows and lows highs
Mirror(data) ==
    [k \in 1 .. Len(data) |->
        LET c == data[Len(data) + 1 - k]
        IN  Candle(k, TopPrice + 1 - c.open, TopPrice + 1 - c.low, TopPrice + 1 - c.high,
                   TopPrice + 1 - c.close)]

Opposite(kind) == IF kind = "high" THEN "low" ELSE "high"

\* C18: index k is a swing high (low) of the series iff the mirrored index is a swing low
\* (high) of the mirrored series, also with equal highs or lows in the series.
C18_MirrorSymmetric ==
    swPc = "done" =>
        \A k \in 1 .. Len(swData) : \A kind \in {"high", "low"} :
            Reported(swResult[1], k, kind)
                <=> Reported(findSwingPoints(Mirror(swData), swLookback),
                             Len(swData) + 1 - k, Opposite(kind))

\* a swing high whose mirrored index is no swing low of the mirrored series
C18_Witness ==
    /\ swPc = "done"
    /\ Len(swData) = 3
    /\ swData[1].high = swData[2].high
    /\ Reported(swResult[1], 2, "high")
    /\ ~Reported(findSwingPoints(Mirror(swData), swLookback), 2, "low")

\* no candle has the high or the low of another candle within lookback positions
NoTiedNeighbours ==
    \A k \in 1 .. Len(swData) : \A j \in 1 .. swLookback :
        k + j <= Len(swData) =>
            swData[k].high # swData[k + j].high /\ swData[k].low # swData[k + j].low

\* C18 for series without tied neighbours
C18_MirrorSymmetricUnlessTied ==
    swPc = "done" /\ NoTiedNeighbours => C18_MirrorSymmetric

\* a swing of a series without tied neighbours
C18_WitnessUntied ==
    swPc = "done" /\ NoTiedNeighbours /\ swResult[1].highs # <<>> /\ swLookback = 2

\* ------------------------------------------------------ claims: insufficient data
\* the result of runBacktest without a closed trade
ZeroedResult(trades, finalEquity) ==
    [trades |-> trades, maxDrawdown |-> Zero, maxDrawdownAmount |-> Zero,
     netProfitPercent |-> Zero, winRate |-> Zero, profitFactor |-> Zero,
     finalEquity |-> finalEquity, totalTrades |-> 0]

\* C19: insufficient data gives an empty or zeroed result: findSwingPoints returns no swing
\* for fewer than 2*lookback+1 candles; analyzeSMC returns no signal and no drawing when
\* HTF has fewer than 2*htfSwingLookback+1 candles or MTF or LTF fewer than 10; runBacktest
\* on an empty candle list returns the zeroed result; and so does an optimizer run on
\* empty series.
C19_InsufficientData ==
    /\ swPc = "done" /\ Len(swData) < 2 * swLookback + 1 =>
           swResult = <<[highs |-> <<>>, lows |-> <<>>]>>
    /\ /\ smcPc = "done"
       /\ \/ seriesLen.htf < 2 * settings.htfSwingLookback + 1
          \/ seriesLen.mtf < 10
          \/ seriesLen.ltf < 10
       => smcResult = <<>> /\ smcDrawings = <<>>
    /\ btPc = "done" /\ candle.time = 0 =>
           btResult = <<ZeroedResult(<<>>, initialCapitalForRun)>>
    /\ chartData = EmptyChart /\ runs # <<>> =>
           Last(runs).results = ZeroedResult(<<>>, I(baseSettings.initialCapital))

\* analyzeSMC returned for an HTF series one candle short, with MTF and LTF long enough
C19_Witness ==
    /\ smcPc = "done"
    /\ seriesLen.htf = 2 * settings.htfSwingLookback
    /\ seriesLen.mtf = 10
    /\ seriesLen.ltf = 10
    /\ smcResult = <<>>
    /\ smcDrawings = <<>>

\* findSwingPoints returned for a series one candle short
C19_WitnessSwing == swPc = "done" /\ swLookback = 2 /\ Len(swData) = 4

\* runBacktest returned for an empty candle list and pending signals
C19_WitnessBacktest == btPc = "done" /\ candle.time = 0 /\ tradeSignals # <<>>

\* analyzeSMC returned for an empty LTF series
C19_WitnessEmpty == smcPc = "done" /\ seriesLen.ltf = 0 /\ seriesLen.htf = 3

\* an optimizer run on empty series
C19_WitnessOptimizer == chartData = EmptyChart /\ optPc = "done"

\* C20: when no trade was closed by the end of the candle list, runBacktest returns
\* maxDrawdown, maxDrawdownAmount, netProfitPercent, winRate, profitFactor and totalTrades
\* 0 and finalEquity equal to the initial capital of the run, and the trade list still
\* holds the Open trade if there is one.
C20_NoClosedTrade ==
    btPc = "done" /\ closedTrades = <<>> =>
        /\ btResult = <<ZeroedResult(executedTrades, initialCapitalForRun)>>
        /\ Len(executedTrades) <= 1
        /\ activeTrade # 0 =>
               /\ btResult[1].trades = <<executedTrades[activeTrade]>>
               /\ btResult[1].trades[1].outcome = "Open"

\* runBacktest returned while its only trade was still Open
C20_Witness ==
    /\ btPc = "done"
    /\ candle.time > 0
    /\ Len(btResult[1].trades) = 1
    /\ btResult[1].trades[1].outcome = "Open"
    /\ btResult[1].totalTrades = 0

\* runBacktest returned after candles on which no trade was opened
C20_WitnessNoTrade ==
    btPc = "done" /\ candle.time > 0 /\ tradeSignals # <<>> /\ btResult[1].trades = <<>>

\* ------------------------------------------- Backtest Simulator, wider prices
\* The same loop on candles and signals of a wider price range, where the equity can make a
\* new peak between two drawdowns.
MaxWide == 4

WideStops == {<<10, 5>>, <<10, 9>>, <<20, 11>>}

WideCandleShapes == {<<10, 10>>, <<5, 10>>, <<10, 25>>, <<11, 20>>}

WideSettings == BtSettings(I(3), 0, 10, FALSE)

\* lines 537-545, with one Bullish signal per entry time
WideInit ==
    /\ settings = WideSettings
    /\ startingEquity = <<>>
    /\ \E stops \in [1 .. 3 -> WideStops] :
           tradeSignals = [k \in 1 .. 3 |->
               Signal(k, "Bullish", stops[k][1], stops[k][2], settings.rrRatio)]
    /\ candle = NoCandle
    /\ equity = initialCapitalForRun
    /\ peakEquity = initialCapitalForRun
    /\ maxDrawdown = Zero
    /\ maxDrawdownAmount = Zero
    /\ executedTrades = <<>>
    /\ activeTrade = 0
    /\ pendingSignals = SortByEntryTime(tradeSignals)
    /\ btResult = <<>>
    /\ btPc = "wide"

\* one iteration of `for (const candle of ltfData)` (lines 547-648)
WideStep ==
    /\ btPc = "wide"
    /\ candle.time < MaxWide
    /\ \E shape \in WideCandleShapes :
           LET c == Candle(candle.time + 1, shape[1], shape[2], shape[1], shape[2])
           IN  \E st \in {OpenStep(CloseStep(LoopState, c), c)} :
               /\ candle' = c
               /\ equity' = st.equity
               /\ peakEquity' = st.peakEquity
               /\ maxDrawdown' = st.maxDrawdown
               /\ maxDrawdownAmount' = st.maxDrawdownAmount
               /\ executedTrades' = st.executedTrades
               /\ activeTrade' = st.activeTrade
               /\ pendingSignals' = st.pendingSignals
    /\ UNCHANGED <<settings, startingEquity, tradeSignals, btResult, btPc>>
    /\ UNCHANGED <<smcVars, swVars, optVars>>
    /\ UNCHANGED rtVars
    /\ UNCHANGED wkVars

BacktestWideInit == WideInit /\ SmcOff /\ SwOff /\ OptOff /\ RetryOff /\ WorkerOff

SpecBacktestWide == BacktestWideInit /\ [][WideStep]_vars

\* ------------------------------------------------------- claims: accounting
IsInteger(x) == x.d = 1

\* the notional the sizing rule gives a trade opened at this equity:
\* position size ((equity * orderSizePercent / 100) / |entry - stop|) times the entry price
Notional(t, eq) ==
    Mul(Div(Mul(eq, Div(I(settings.orderSizePercent), I(100))),
            MathAbs(Sub(t.entryPrice, t.slPrice))),
        t.entryPrice)

AtLeastOne(x) == IF Ge(x, I(1)) THEN x ELSE I(1)

\* C21: every trade runBacktest opens records a leverage that is an integer >= 1, equal to
\* max(1, ceil(notional / equity-at-entry)).  An Open trade still holds the equity it was
\* opened with (line 631); line 587 overwrites it at the close.
C21_LeverageAtLeastOne ==
    \A k \in OpenTrades :
        LET t == executedTrades[k] IN
        /\ IsInteger(t.leverage)
        /\ Ge(t.leverage, I(1))
        /\ t.leverage = AtLeastOne(MathCeil(Div(Notional(t, t.equity), t.equity)))

\* a trade opened with equity 0 after a loss of the whole equity: its leverage is NaN
C21_Witness ==
    \E k \in OpenTrades :
        /\ executedTrades[k].equity = Zero
        /\ IsNaN(executedTrades[k].leverage)

\* C21 (supporting): the leverage is the claimed integer whenever the trade is opened with
\* an equity other than zero
C21_LeverageUnlessBroke ==
    \A k \in OpenTrades :
        LET t == executedTrades[k] IN
        t.equity # Zero =>
            /\ IsInteger(t.leverage)
            /\ Ge(t.leverage, I(1))
            /\ t.leverage = AtLeastOne(MathCeil(Div(Notional(t, t.equity), t.equity)))

ClosedTrades == {k \in DOMAIN executedTrades : executedTrades[k].outcome # "Open"}

\* the equity a closed trade was opened with: no other trade closes while it is active, and
\* lines 573 and 587 leave equity-at-entry + pnl in the trade's equity field
EquityAtEntry(t) == Sub(t.equity, t.pnl)

\* the round-trip commission on the position value leverage * equity-at-entry
RoundTripCommission(t) ==
    Mul(Mul(Mul(t.leverage, EquityAtEntry(t)), Div(I(settings.commissionPercent), I(100))),
        I(2))

\* the realized PnL of a closed trade that risked the amount r
PnlForRisk(t, r) ==
    IF t.outcome = "Win" THEN Sub(Mul(r, settings.rrRatio), RoundTripCommission(t))
                         ELSE Sub(Neg(r), RoundTripCommission(t))

\* C22: on close the realized PnL is +rrRatio * R - C for a Win and -R - C for a Loss, with
\* R = equity-at-entry * orderSizePercent / 100 and C the round-trip commission
C22_PnlOfConfiguredRisk ==
    \A k \in ClosedTrades :
        LET t == executedTrades[k]
            R == Mul(EquityAtEntry(t), Div(I(settings.orderSizePercent), I(100)))
        IN  t.pnl = PnlForRisk(t, R)

\* a closed trade whose exact leverage was not an integer: it lost more than R
C22_Witness ==
    \E k \in ClosedTrades :
        LET t == executedTrades[k]
            R == Mul(EquityAtEntry(t), Div(I(settings.orderSizePercent), I(100)))
        IN  /\ t.outcome = "Loss"
            /\ Gt(EquityAtEntry(t), Zero)
            /\ Lt(t.pnl, PnlForRisk(t, R))

\* the amount line 623 stores: the risk of the position resized to the integer leverage
\* (line 566 reads it back through Math.abs)
ResizedRisk(t) ==
    MathAbs(Mul(Div(Mul(EquityAtEntry(t), t.leverage), t.entryPrice),
                MathAbs(Sub(t.entryPrice, t.slPrice))))

\* C22 (supporting): the realized PnL is the claimed one for the risk of the resized position
C22_PnlOfResizedRisk ==
    \A k \in ClosedTrades :
        LET t == executedTrades[k]
        IN  ~IsNaN(t.pnl) => t.pnl = PnlForRisk(t, ResizedRisk(t))

RECURSIVE PeakAtClose(_)
\* the highest equity reached up to the close of the k-th trade, starting capital included
PeakAtClose(k) ==
    IF k = 0 THEN initialCapitalForRun
    ELSE LET before == PeakAtClose(k - 1)
             eq == executedTrades[k].equity
         IN  IF Gt(eq, before) THEN eq ELSE before

DrawdownAtClose(k) == Sub(PeakAtClose(k), executedTrades[k].equity)

DrawdownPercentAtClose(k) == Mul(Div(DrawdownAtClose(k), PeakAtClose(k)), I(100))

\* m is the maximum of the values of f over the set S
IsMaximum(m, f(_), S) == (\E k \in S : f(k) = m) /\ (\A k \in S : Le(f(k), m))

\* C23: after at least one closed trade maxDrawdown is the maximum over all closes of
\* (peakEquity - equity) / peakEquity * 100 and maxDrawdownAmount the maximum over all
\* closes of (peakEquity - equity)
C23_PeakToTrough ==
    ClosedTrades # {} =>
        /\ IsMaximum(maxDrawdown, DrawdownPercentAtClose, ClosedTrades)
        /\ IsMaximum(maxDrawdownAmount, DrawdownAtClose, ClosedTrades)

\* the equity makes a new peak after the deepest drawdown in percent and then falls by a
\* larger amount: maxDrawdownAmount is not that amount
C23_Witness ==
    /\ ClosedTrades = {1, 2, 3}
    /\ ~IsNaN(equity)
    /\ Gt(DrawdownAtClose(3), maxDrawdownAmount)
    /\ Lt(DrawdownPercentAtClose(3), maxDrawdown)

\* the first close whose drawdown in percent is the deepest
DeepestClose ==
    CHOOSE k \in ClosedTrades :
        /\ \A j \in ClosedTrades : Le(DrawdownPercentAtClose(j), DrawdownPercentAtClose(k))
        /\ \A j \in ClosedTrades :
               DrawdownPercentAtClose(j) = DrawdownPercentAtClose(k) => k <= j

\* C23 (supporting): maxDrawdown is the deepest drawdown in percent over all closes, and
\* maxDrawdownAmount is the amount of that drawdown
C23_AmountOfDeepestPercent ==
    (ClosedTrades # {} /\ \A k \in ClosedTrades : ~IsNaN(executedTrades[k].equity)) =>
        /\ IsMaximum(maxDrawdown, DrawdownPercentAtClose, ClosedTrades)
        /\ maxDrawdownAmount =
               IF maxDrawdown = Zero THEN Zero ELSE DrawdownAtClose(DeepestClose)

TradesWith(outcome) == {k \in DOMAIN executedTrades : executedTrades[k].outcome = outcome}

RECURSIVE SumOfPnl(_)
\* the sum of the pnl of the trades with these indices, in list order
SumOfPnl(S) ==
    IF S = {} THEN Zero
    ELSE LET k == CHOOSE j \in S : \A i \in S : i <= j
         IN  Add(SumOfPnl(S \ {k}), executedTrades[k].pnl)

\* C24: with at least one closed trade the returned aggregates are computed over the closed
\* trades only: totalTrades = closed, winRate = wins / closed * 100, profitFactor = (sum of
\* Win pnl) / |sum of Loss pnl|, infinite when there is no Loss, and netProfitPercent =
\* (finalEquity - starting equity) / starting equity * 100; an Open trade adds to none
C24_Aggregation ==
    (btPc = "done" /\ ClosedTrades # {}) =>
        LET r == btResult[1]
            closed == Cardinality(ClosedTrades)
            wins == Cardinality(TradesWith("Win"))
        IN  /\ r.totalTrades = closed
            /\ r.winRate = Mul(Div(I(wins), I(closed)), I(100))
            /\ r.profitFactor =
                   IF TradesWith("Loss") = {} THEN Infinity
                   ELSE Div(SumOfPnl(TradesWith("Win")),
                            MathAbs(SumOfPnl(TradesWith("Loss"))))
            /\ r.netProfitPercent =
                   Mul(Div(Sub(r.finalEquity, initialCapitalForRun), initialCapitalForRun),
                       I(100))
            /\ r.finalEquity = equity

\* runBacktest returns after a Loss with a NaN pnl: profitFactor is Infinity
C24_Witness ==
    /\ btPc = "done"
    /\ \E k \in TradesWith("Loss") : IsNaN(executedTrades[k].pnl)
    /\ btResult[1].profitFactor = Infinity

\* C24 (supporting): the aggregates are the claimed ones whenever no closed trade has a NaN
\* pnl
C24_AggregationUnlessNaN ==
    (\A k \in ClosedTrades : ~IsNaN(executedTrades[k].pnl)) => C24_Aggregation

\* runBacktest returns with a Win, a Loss and no NaN
C24_WitnessMixed ==
    /\ btPc = "done"
    /\ TradesWith("Win") # {}
    /\ TradesWith("Loss") # {}
    /\ ~IsNaN(btResult[1].profitFactor)
    /\ btResult[1].profitFactor # Infinity

\* ------------------------------------------------------- claims: POI list
\* the POIs of the POI drawings, in drawing order
DrawnPois ==
    LET ds == SelectSeq(allDrawings, LAMBDA d : d.type = "POI")
    IN  [k \in 1 .. Len(ds) |-> ds[k].data]

DistinctZones(ps) ==
    \A j, k \in 1 .. Len(ps) :
        j # k => ~(/\ ps[j].startTime = ps[k].startTime
                   /\ ps[j].top = ps[k].top
                   /\ ps[j].bottom = ps[k].bottom)

AscendingStart(ps) == \A k \in 1 .. Len(ps) - 1 : ps[k].startTime <= ps[k + 1].startTime

\* C25: the POI list handed to the Entry Tracker, and the POI annotations, hold no two POIs
\* with the same (startTime, top, bottom) and are sorted by ascending startTime
C25_PoiListSortedDistinct ==
    smcPc = "selected" =>
        /\ DistinctZones(activePois)
        /\ AscendingStart(activePois)
        /\ DistinctZones(DrawnPois)
        /\ AscendingStart(DrawnPois)
        /\ Len(DrawnPois) = Len(activePois)
        /\ \A p \in Range(potentialPois) :
               \E k \in 1 .. Len(activePois) :
                   /\ activePois[k].startTime = p.startTime
                   /\ activePois[k].top = p.top
                   /\ activePois[k].bottom = p.bottom

\* three POIs were pushed out of order, two of them with the same zone; two are kept
C25_Witness ==
    /\ smcPc = "selected"
    /\ Len(potentialPois) = 3
    /\ ~AscendingStart(potentialPois)
    /\ ~DistinctZones(potentialPois)
    /\ Len(activePois) = 2

SameNumber(key, field, v) ==
    IF key \in {"htfSwingLookback", "ltfChochLookback"} THEN I(field) = v ELSE field = v

\* the settings of the run being evaluated: baseSettings but for the swept keys
RunSettingsFromBase ==
    optPc = "prepared" =>
        /\ DOMAIN settings = DOMAIN baseSettings
        /\ \A key \in DOMAIN baseSettings :
               IF key \in SweptKeys
               THEN SameNumber(key, settings[key], combinations[optI + 1][key])
               ELSE settings[key] = baseSettings[key]

\* no step changes an argument of analyzeSMC, runBacktest or runOptimizer
ArgumentsKept ==
    /\ tradeSignals' = tradeSignals
    /\ startingEquity' = startingEquity
    /\ seriesLen' = seriesLen
    /\ chartData' = chartData
    /\ baseSettings' = baseSettings
    /\ optimizerSettings' = optimizerSettings
    /\ optPc \in {"off", "prepared"} => settings' = settings

C27_WitnessSignals ==
    /\ btPc = "done"
    /\ Len(pendingSignals) < Len(tradeSignals)

\* ---------------------------------------------------------------------- retry
\* the most attempts retry is called with
MaxAttempts == 3

\* what a call of fn gives: a value (undefined is one), null, or an exception
FnOutcomes == {"data", "undefined", "null", "throw"}

\* line 105 is false or the catch of line 110 is entered
AttemptFailed(outcome) == outcome \in {"null", "throw"}

DelayAfterEveryFailure(k) == TRUE

\* line 114: i < attempts - 1
DelayFollows(k) == k < attempts - 1

\* retry(fn, attempts, delay) is called
RtInit ==
    /\ attempts \in 0 .. MaxAttempts
    /\ delay \in {0, 1000}
    /\ rtI = 0
    /\ rtResult = <<>>
    /\ rtLog = <<>>
    /\ rtPc = "call"

\* lines 102-104 and 118-119 with i = k: fn is called, or the loop is left and retry
\* returns null; log is the history up to there
LoopFrom(k, log) ==
    /\ rtI' = k
    /\ IF k < attempts
       THEN /\ rtLog' = Append(log, "call")
            /\ rtPc' = "await"
            /\ UNCHANGED rtResult
       ELSE /\ rtLog' = log
            /\ rtResult' = <<"null">>
            /\ rtPc' = "done"

\* retry runs up to its first await
RetryEnter ==
    /\ rtPc = "call"
    /\ LoopFrom(0, rtLog)
    /\ UNCHANGED <<attempts, delay>>
    /\ UNCHANGED <<settings, btVars, smcVars, swVars, optVars>>
    /\ UNCHANGED wkVars

\* lines 104-119: the call of fn settles; retry returns the value, starts the timer, or goes
\* on with the loop
RetrySettle ==
    /\ rtPc = "await"
    /\ \E outcome \in FnOutcomes :
           \/ /\ ~AttemptFailed(outcome)
              /\ rtLog' = Append(rtLog, outcome)
              /\ rtResult' = <<outcome>>
              /\ rtPc' = "done"
              /\ UNCHANGED rtI
           \/ /\ AttemptFailed(outcome)
              /\ DelayFollows(rtI)
              /\ rtLog' = rtLog \o <<outcome, "delay">>
              /\ rtPc' = "sleep"
              /\ UNCHANGED <<rtI, rtResult>>
           \/ /\ AttemptFailed(outcome)
              /\ ~DelayFollows(rtI)
              /\ LoopFrom(rtI + 1, Append(rtLog, outcome))
    /\ UNCHANGED <<attempts, delay>>
    /\ UNCHANGED <<settings, btVars, smcVars, swVars, optVars>>
    /\ UNCHANGED wkVars

\* lines 115, 102-104: the timer fires and the loop goes on
RetryWake ==
    /\ rtPc = "sleep"
    /\ LoopFrom(rtI + 1, rtLog)
    /\ UNCHANGED <<attempts, delay>>
    /\ UNCHANGED <<settings, btVars, smcVars, swVars, optVars>>
    /\ UNCHANGED wkVars

RtNext == RetryEnter \/ RetrySettle \/ RetryWake

RetryInit ==
    /\ RtInit /\ settings = BtSettings(I(1), 0, 10, FALSE)
    /\ BtOff /\ SmcOff /\ SwOff /\ OptOff /\ WorkerOff

SpecRetry == RetryInit /\ [][RtNext]_vars

\* ------------------------------------------------------- claims: retry
CallsOfFn == {k \in DOMAIN rtLog : rtLog[k] = "call"}

SettledCalls == {k \in DOMAIN rtLog : rtLog[k] \in FnOutcomes}

Successes == {k \in SettledCalls : rtLog[k] \notin {"null", "throw"}}

\* C28: retry calls fn one call at a time and at most `attempts` times, returns the first
\* non-null result without calling fn again, returns null exactly when every attempt
\* failed (by returning null or by throwing), lets no exception of fn through, and waits
\* the delay only between two consecutive attempts
C28_Retry ==
    /\ Cardinality(CallsOfFn) <= attempts
    /\ \A k \in CallsOfFn : k < Len(rtLog) => k + 1 \in SettledCalls
    /\ \A k \in SettledCalls : k - 1 \in CallsOfFn
    /\ rtPc \in {"call", "await", "sleep", "done"}
    /\ rtPc = "done" <=> rtResult # <<>>
    /\ Successes # {} =>
           /\ Successes = {Len(rtLog)}
           /\ rtPc = "done"
           /\ rtResult = <<Last(rtLog)>>
    /\ (rtPc = "done" /\ Successes = {}) =>
           /\ rtResult = <<"null">>
           /\ Cardinality(SettledCalls) = attempts
    /\ \A k \in DOMAIN rtLog :
           rtLog[k] = "delay" =>
               /\ k - 1 \in SettledCalls \ Successes
               /\ IF k < Len(rtLog) THEN k + 1 \in CallsOfFn
                                    ELSE rtPc = "sleep" /\ rtI + 1 < attempts

\* retry returned a value at the third attempt, after a null and an exception and two delays
C28_Witness ==
    /\ rtPc = "done"
    /\ rtLog = <<"call", "null", "delay", "call", "throw", "delay", "call", "data">>
    /\ rtResult = <<"data">>

\* every attempt failed and retry returned null without a delay at the end
C28_WitnessExhausted ==
    /\ rtPc = "done"
    /\ attempts = 2
    /\ rtLog = <<"call", "throw", "delay", "call", "null">>
    /\ rtResult = <<"null">>

\* ------------------------------------------------------- claims: Entry Tracker states
\* the tracker loop takes the next LTF candle
TakesCandle == smcPc = "loop" /\ currentLtfCandle' # currentLtfCandle

\* the active POIs that have started and that the candle c overlaps
Overlapped(c) ==
    {k \in 1 .. Len(activePois) :
         /\ activePois[k].startTime <= c.time
         /\ c.low <= activePois[k].top
         /\ c.high >= activePois[k].bottom}

\* C29: in Idle, on the LTF candle c the tracker enters Monitoring iff some active POI has
\* startTime <= c.time and overlaps c; it picks the one with the earliest startTime among
\* those, removes only that POI from the active set and starts the buffer as [c];
\* otherwise it stays Idle and the active set is unchanged
C29_IdleEntry ==
    [][(TakesCandle /\ monitoredPoi = <<>>) =>
           LET c == currentLtfCandle' IN
           IF Overlapped(c) = {}
           THEN monitoredPoi' = <<>> /\ activePois' = activePois
           ELSE \E k \in Overlapped(c) :
                    /\ \A j \in Overlapped(c) :
                           activePois[k].startTime <= activePois[j].startTime
                    /\ monitoredPoi' = <<activePois[k]>>
                    /\ activePois' = RemoveAt(activePois, k)
                    /\ ltfDataForChoch' = <<c>>]_vars

\* the candle overlaps two started POIs: the earlier one is entered, the later stays active
C29_Witness ==
    /\ monitoredPoi # <<>>
    /\ ltfDataForChoch = <<currentLtfCandle>>
    /\ Len(activePois) = 1
    /\ activePois[1].startTime > monitoredPoi[1].startTime
    /\ currentLtfCandle.time >= activePois[1].startTime
    /\ currentLtfCandle.low <= activePois[1].top
    /\ currentLtfCandle.high >= activePois[1].bottom

\* a POI that has started but is not overlapped stays active while a later one is entered
C29_WitnessSkipped ==
    /\ monitoredPoi # <<>>
    /\ ltfDataForChoch = <<currentLtfCandle>>
    /\ Len(activePois) = 1
    /\ activePois[1].startTime < monitoredPoi[1].startTime

\* the candle c fires a CHoCH for the monitored POI: the buffer with c has swings and c
\* breaks the last one against the POI's side
FiresChoch(c) ==
    LET buffer == Append(ltfDataForChoch, c)
    IN  /\ Len(buffer) >= settings.ltfChochLookback * 2 + 1
        /\ ChochSwing(monitoredPoi[1], findSwingPoints(buffer, settings.ltfChochLookback),
                      c) # <<>>

\* C30: while Monitoring, a candle that neither invalidates the POI nor fires a CHoCH leaves
\* the tracker Monitoring the same POI, appends exactly that candle to the buffer and emits
\* nothing; no CHoCH annotation and no signal is produced while the buffer holds fewer than
\* 2 * ltfChochLookback + 1 candles
C30_QuietCandle ==
    [][(TakesCandle /\ monitoredPoi # <<>>) =>
           LET c == currentLtfCandle' IN
           /\ (~IsInvalidated(monitoredPoi[1], c) /\ ~FiresChoch(c)) =>
                  /\ monitoredPoi' = monitoredPoi
                  /\ ltfDataForChoch' = Append(ltfDataForChoch, c)
                  /\ allTrades' = allTrades
                  /\ allDrawings' = allDrawings
                  /\ activePois' = activePois
           /\ Len(ltfDataForChoch) + 1 < settings.ltfChochLookback * 2 + 1 =>
                  /\ allTrades' = allTrades
                  /\ allDrawings' = allDrawings]_vars

\* the buffer has grown past 2 * ltfChochLookback + 1 candles without a CHoCH
C30_Witness ==
    /\ monitoredPoi # <<>>
    /\ Len(ltfDataForChoch) > settings.ltfChochLookback * 2 + 1
    /\ Last(ltfDataForChoch) = currentLtfCandle
    /\ \A k \in 1 .. Len(allDrawings) : allDrawings[k].type # "CHoCH"

\* ------------------------------------------------------- claims: opening trades
\* the backtest loop takes the next candle
NextCandle == candle' # candle

\* no trade is active when step 2 of the loop body runs on the new candle
NoneActive == activeTrade = 0 \/ executedTrades'[activeTrade].outcome # "Open"

\* the pending signals a trade can be opened for on the new candle
Fillable == {k \in DOMAIN pendingSignals : CanFill(pendingSignals[k], candle', equity')}

\* C31: when no trade is active at a candle, runBacktest opens a trade for the earliest
\* pending signal that is due, bracketed by the candle, has a risk and passes the
\* commission filter; the signal leaves the queue, the trade records entryTime =
\* candle.time and signalTime = signal.entryTime; at most one trade opens per candle
C31_OpensEarliestFillable ==
    [][NextCandle =>
           IF NoneActive /\ Fillable # {}
           THEN \E k \in Fillable :
                    /\ \A j \in Fillable :
                           pendingSignals[k].entryTime <= pendingSignals[j].entryTime
                    /\ pendingSignals' = RemoveAt(pendingSignals, k)
                    /\ Len(executedTrades') = Len(executedTrades) + 1
                    /\ activeTrade' = Len(executedTrades')
                    /\ Last(executedTrades').outcome = "Open"
                    /\ Last(executedTrades').entryTime = candle'.time
                    /\ Last(executedTrades').signalTime = pendingSignals[k].entryTime
                    /\ Last(executedTrades').entryPrice = pendingSignals[k].entryPrice
           ELSE /\ pendingSignals' = pendingSignals
                /\ Len(executedTrades') = Len(executedTrades)]_vars

\* a trade was opened on the candle that closed the one before, for a signal due earlier,
\* while another signal stays pending
C31_Witness ==
    /\ Len(executedTrades) = 2
    /\ executedTrades[1].exitTime = candle.time
    /\ executedTrades[2].entryTime = candle.time
    /\ executedTrades[2].signalTime < candle.time
    /\ activeTrade = 2

\* the gross profit a trade can make: the amount it risks times rrRatio (line 568)
PotentialGrossProfit(t) == Mul(MathAbs(t.pnl), settings.rrRatio)

\* the round-trip commission lines 567-569 charge on the position value of an open trade
CommissionOnPosition(t) ==
    Mul(Mul(Mul(t.leverage, t.equity), Div(I(settings.commissionPercent), I(100))), I(2))

\* C32: with filterByCommission enabled no trade is opened whose potential gross profit
\* (amount risked * rrRatio) is at most the round-trip commission charged on its position
\* value, so every trade closed as a Win has net PnL > 0
C32_CommissionFilter ==
    settings.filterByCommission =>
        \A k \in DOMAIN executedTrades :
            LET t == executedTrades[k] IN
            /\ t.outcome = "Open" => Gt(PotentialGrossProfit(t), CommissionOnPosition(t))
            /\ t.outcome = "Win" => Gt(t.pnl, Zero)

\* the filter has left a due, bracketed signal with a risk pending, and a trade that
\* passed it was closed as a Win with a commission charged
C32_Witness ==
    /\ settings.filterByCommission
    /\ btPc = "loop"
    /\ \E k \in DOMAIN pendingSignals :
           /\ pendingSignals[k].entryTime <= candle.time
           /\ IsEntry(pendingSignals[k], candle)
           /\ ~ZeroRisk(pendingSignals[k])
    /\ \E k \in DOMAIN executedTrades :
           /\ executedTrades[k].outcome = "Win"
           /\ Gt(RoundTripCommission(executedTrades[k]), Zero)

\* ------------------------------------------------------------ claims: BOS legs
\* the loops of lines 334 and 382 have run
LegsDone == smcPc \in {"structure", "selected"} /\ htfSwings # <<>>

BosDrawn == SelectSeq(allDrawings, LAMBDA d : d.type = "BOS")

\* the pairs of consecutive HTF swing highs with a higher high and of consecutive HTF
\* swing lows with a lower low, named by the kind and the index of the later swing
BosPairs ==
    {<<"high", i>> : i \in {j \in 2 .. Len(htfSwings.highs) :
                               htfSwings.highs[j].price > htfSwings.highs[j - 1].price}}
    \cup {<<"low", i>> : i \in {j \in 2 .. Len(htfSwings.lows) :
                                   htfSwings.lows[j].price < htfSwings.lows[j - 1].price}}

SwingsOfKind(kind) == IF kind = "high" THEN htfSwings.highs ELSE htfSwings.lows

\* {time: later swing time, price: earlier swing price}
BosOfPair(p) ==
    [time |-> SwingsOfKind(p[1])[p[2]].time, price |-> SwingsOfKind(p[1])[p[2] - 1].price]

\* the BOS-forming pair of a POI: its direction and its endTime, the time of the later swing
PoisOfPair(p) ==
    {k \in DOMAIN potentialPois :
         /\ potentialPois[k].direction = (IF p[1] = "high" THEN "Bullish" ELSE "Bearish")
         /\ potentialPois[k].endTime = SwingsOfKind(p[1])[p[2]].time}

\* C33: analyzeSMC records exactly one BOS annotation {time: later swing time, price:
\* earlier swing price} for each pair of consecutive HTF swing highs with a higher high
\* and each pair of consecutive HTF swing lows with a lower low, whether or not the leg
\* yields a POI, and no other BOS annotation
C33_BosAnnotations ==
    LegsDone =>
        /\ Len(BosDrawn) = Cardinality(BosPairs)
        /\ \A p \in BosPairs :
               Cardinality({k \in DOMAIN BosDrawn : BosDrawn[k].data = BosOfPair(p)})
                   = Cardinality({q \in BosPairs : BosOfPair(q) = BosOfPair(p)})

\* a bullish and a bearish BOS were recorded, one for a leg with a POI and one for a leg
\* without, and a pair of equal swing highs gave none
C33_Witness ==
    /\ LegsDone
    /\ \E p \in BosPairs, q \in BosPairs :
           /\ p[1] = "high" /\ q[1] = "low"
           /\ (PoisOfPair(p) = {}) # (PoisOfPair(q) = {})
    /\ \E j \in 2 .. Len(htfSwings.highs) :
           htfSwings.highs[j].price = htfSwings.highs[j - 1].price

\* the direction of the loop that is running
LegDirection == IF smcPc = "bullish" THEN "Bullish" ELSE "Bearish"

\* the swings the running loop pairs up, and the swings of the other kind
LegMain == IF smcPc = "bullish" THEN htfSwings.highs ELSE htfSwings.lows

LegOther == IF smcPc = "bullish" THEN htfSwings.lows ELSE htfSwings.highs

\* the swings of the other kind strictly between the two swings of the current pair
LegBetween ==
    {k \in DOMAIN LegOther :
         /\ LegOther[k].time > LegMain[legI - 1].time
         /\ LegOther[k].time < LegMain[legI].time}

\* swing k is an extreme of the leg: a lowest low of a bullish leg, a highest high of a
\* bearish one
LegExtreme(k) ==
    /\ k \in LegBetween
    /\ \A j \in LegBetween :
           IF smcPc = "bullish" THEN LegOther[k].price <= LegOther[j].price
                                ELSE LegOther[k].price >= LegOther[j].price

\* a swing of the other kind before swing k exists and swing k is strictly beyond the
\* nearest one
SweepsLiquidity(k) ==
    LET prior == {j \in DOMAIN LegOther : LegOther[j].time < LegOther[k].time}
    IN  /\ prior # {}
        /\ \E j \in prior :
               /\ \A n \in prior : LegOther[n].time <= LegOther[j].time
               /\ IF smcPc = "bullish" THEN LegOther[k].price < LegOther[j].price
                                       ELSE LegOther[k].price > LegOther[j].price

\* the POIs the iteration pushed
LegYield == SubSeq(potentialPois', Len(potentialPois) + 1, Len(potentialPois'))

\* C34: a BOS leg yields POIs only if a swing of the other kind exists strictly between
\* the two BOS-forming swings, the impulse swing being the lowest such low (bullish) or
\* highest such high (bearish); with useLiquiditySweepFilter the leg is also discarded
\* unless a prior swing of that kind exists and the impulse swing is strictly beyond the
\* nearest one before it
C34_ImpulseLeg ==
    [][(smcPc \in {"bullish", "bearish"} /\ LegYield # <<>>) =>
           /\ IsBos(LegMain[legI - 1], LegMain[legI], LegDirection)
           /\ \E k \in LegBetween :
                  /\ LegExtreme(k)
                  /\ settings.useLiquiditySweepFilter => SweepsLiquidity(k)
                  /\ \A n \in DOMAIN LegYield :
                         /\ LegYield[n].startTime >= LegOther[k].time
                         /\ LegYield[n].direction = LegDirection]_vars

\* with the liquidity sweep filter on, a bullish leg with two swing lows between its
\* highs has yielded a POI
C34_Witness ==
    /\ LegsDone
    /\ settings.useLiquiditySweepFilter
    /\ \E p \in BosPairs :
           /\ p[1] = "high"
           /\ PoisOfPair(p) # {}
           /\ Cardinality({k \in DOMAIN htfSwings.lows :
                               /\ htfSwings.lows[k].time > htfSwings.highs[p[2] - 1].time
                               /\ htfSwings.lows[k].time < htfSwings.highs[p[2]].time}) >= 2

\* impulseLow + (currentHigh - impulseLow) * discountZone for a bullish leg with impulse
\* swing k, impulseHigh - (impulseHigh - currentLow) * discountZone for a bearish one
LevelOf(k) ==
    LET impulse == I(LegOther[k].price)
        current == I(LegMain[legI].price)
    IN  IF smcPc = "bullish"
        THEN Add(impulse, Mul(Sub(current, impulse), settings.discountZone))
        ELSE Sub(impulse, Mul(Sub(impulse, current), settings.discountZone))

\* the POI y comes from the MTF candle at position m of a leg with impulse swing k
ComesFrom(y, m, k) ==
    LET ob == mtf[m] IN
    /\ y = [startTime |-> ob.time, endTime |-> LegMain[legI].time, top |-> ob.high,
            bottom |-> ob.low, direction |-> LegDirection]
    /\ ob.time >= LegOther[k].time
    /\ ob.time <= LegMain[legI].time
    /\ IF smcPc = "bullish"
       THEN ob.open > ob.close /\ Lt(I(ob.high), LevelOf(k))
       ELSE ob.open < ob.close /\ Gt(I(ob.low), LevelOf(k))
    /\ settings.useFvgFilter =>
           /\ m + 2 <= Len(mtf)
           /\ IF smcPc = "bullish" THEN mtf[m + 2].low > ob.high
                                   ELSE mtf[m + 2].high < ob.low

\* C35: every Bullish POI comes from an MTF candle that is bearish, lies in [impulse-low
\* time, BOS time], has its high strictly below the discount level and, with useFvgFilter,
\* is followed two positions later by a candle whose low is strictly above its high (no
\* such candle: dropped); startTime = candle time, endTime = BOS time, top = high,
\* bottom = low. Bearish POIs satisfy the mirror conditions against the premium level
C35_PoiOrigin ==
    [][(smcPc \in {"bullish", "bearish"} /\ LegYield # <<>>) =>
           (\E k \in LegBetween :
                LegExtreme(k) /\ (\A n \in DOMAIN LegYield :
                                      \E m \in DOMAIN mtf : ComesFrom(LegYield[n], m, k)))]_vars

\* with the FVG filter on, a bullish leg has yielded a POI and dropped a bearish candle of
\* the leg that lies as low but has no candle two positions later
C35_Witness ==
    /\ LegsDone
    /\ settings.useFvgFilter
    /\ \E n \in DOMAIN potentialPois :
           LET y == potentialPois[n] IN
           /\ y.direction = "Bullish"
           /\ \E m \in DOMAIN mtf :
                  /\ m + 2 > Len(mtf)
                  /\ mtf[m].time <= y.endTime
                  /\ mtf[m].time > y.startTime
                  /\ mtf[m].open > mtf[m].close
                  /\ mtf[m].high <= y.top
                  /\ \A j \in DOMAIN potentialPois : potentialPois[j].startTime # mtf[m].time
    /\ \E n \in DOMAIN potentialPois : potentialPois[n].direction = "Bearish"

\* ----------------------------------------------------- claims: signal order
\* the candle the tracker loop takes fires a CHoCH of the monitored POI that has an entry
\* order block with a positive risk: lines 458-476 (485-503) reach the test of line 478
\* (505)
ReachesDedup ==
    /\ TakesCandle
    /\ monitoredPoi # <<>>
    /\ LET c == currentLtfCandle'
           poi == monitoredPoi[1]
           buffer == Append(ltfDataForChoch, c)
           swings == findSwingPoints(buffer, settings.ltfChochLookback)
           legStart == ChochLegStart(poi, swings, c)
       IN  /\ ~IsInvalidated(poi, c)
           /\ Len(buffer) >= settings.ltfChochLookback * 2 + 1
           /\ ChochSwing(poi, swings, c) # <<>>
           /\ legStart # <<>>
           /\ EntryOB(poi, buffer, legStart[1], c) # <<>>
           /\ Gt(Risk(poi, EntryOB(poi, buffer, legStart[1], c)[1], legStart[1]), Zero)

\* the step appends a signal whose entryTime lies between the candle that entered the
\* monitored POI and the candle of the step, after every signal appended before
AppendsLaterSignal ==
    /\ Len(allTrades') = Len(allTrades) + 1
    /\ SubSeq(allTrades', 1, Len(allTrades)) = allTrades
    /\ Last(allTrades').entryTime >= ltfDataForChoch[1].time
    /\ Last(allTrades').entryTime <= currentLtfCandle'.time
    /\ \A k \in DOMAIN allTrades : allTrades[k].entryTime < Last(allTrades').entryTime

\* C36: with strictly increasing LTF candle times analyzeSMC appends signals in strictly
\* increasing entryTime order: a signal's entryTime lies between the time of the candle
\* that entered its POI and the time of its CHoCH candle, the next POI is entered only on
\* a later candle, and the dedup-by-entryTime check never rejects a signal
C36_SignalsInOrder ==
    [][TakesCandle =>
           /\ IF ReachesDedup THEN AppendsLaterSignal ELSE allTrades' = allTrades
           /\ (monitoredPoi = <<>> /\ monitoredPoi' # <<>>) =>
                  \A k \in DOMAIN allTrades :
                      allTrades[k].entryTime < currentLtfCandle'.time]_vars

\* two POIs have each given a signal, the second entered on the candle after the CHoCH
\* candle of the first
C36_Witness ==
    /\ Len(allTrades) = 2
    /\ Len(episodes) = 2
    /\ monitoredPoi = <<>>
    /\ \E k \in DOMAIN allDrawings :
           /\ allDrawings[k].type = "CHoCH"
           /\ allDrawings[k].data.time >= allTrades[1].entryTime
           /\ allDrawings[k].data.time < allTrades[2].entryTime

\* ---------------------------------------------------- claims: trade timeline
\* C37: with strictly increasing candle times the trades of runBacktest do not overlap:
\* every trade has signalTime <= entryTime, every closed trade has entryTime < exitTime,
\* and a trade's entryTime is >= the exitTime of the trade opened before it (which is
\* closed by then)
C37_Timeline ==
    \A k \in DOMAIN executedTrades :
        LET t == executedTrades[k] IN
        /\ t.signalTime <= t.entryTime
        /\ t.outcome # "Open" => t.entryTime < t.exitTime
        /\ k > 1 => /\ executedTrades[k - 1].outcome # "Open"
                    /\ t.entryTime >= executedTrades[k - 1].exitTime

\* a trade opened on the very candle that closed the trade before it was itself closed on
\* a later candle
C37_Witness ==
    /\ Len(executedTrades) = 2
    /\ executedTrades[2].entryTime = executedTrades[1].exitTime
    /\ executedTrades[2].outcome # "Open"
    /\ executedTrades[2].signalTime < executedTrades[2].entryTime

\* ------------------------------------------------ claims: signal conservation
\* the signal an executed trade was opened for (lines 625-639)
SignalOfTrade(t) ==
    [entryTime |-> t.signalTime, entryPrice |-> t.entryPrice, stopLoss |-> t.slPrice,
     takeProfit |-> t.tpPrice, type |-> t.type]

\* how many elements of the sequence s are x
CountIn(s, x) == Cardinality({k \in DOMAIN s : s[k] = x})

\* C38: at every candle step each input signal is either still pending or has opened
\* exactly one executed trade: executed trades + pending signals = input signals, signal by
\* signal, so a signal rejected for zero risk or by the commission filter stays pending
C38_SignalsConserved ==
    btPc # "off" =>
        /\ Len(executedTrades) + Len(pendingSignals) = Len(tradeSignals)
        /\ \A k \in DOMAIN tradeSignals :
               LET s == tradeSignals[k] IN
               CountIn(tradeSignals, s)
                   = CountIn(pendingSignals, s)
                     + CountIn([j \in DOMAIN executedTrades |->
                                    SignalOfTrade(executedTrades[j])], s)

\* on the last candle one signal has opened a trade while a due, bracketed signal ahead of
\* it in the queue is still pending: it has no risk or the commission filter rejected it
C38_Witness ==
    /\ btPc = "loop"
    /\ candle.time = MaxCandles
    /\ activeTrade # 0
    /\ executedTrades[activeTrade].entryTime = candle.time
    /\ \E k \in DOMAIN pendingSignals :
           /\ pendingSignals[k].entryTime < executedTrades[activeTrade].signalTime
           /\ IsEntry(pendingSignals[k], candle)
           /\ \/ ZeroRisk(pendingSignals[k])
              \/ CommissionFiltered(pendingSignals[k], equity)

\* ------------------------------------------- claims: one change per LTF candle
\* C39: the Entry Tracker makes at most one state change per LTF candle: the candle on
\* which the monitored POI is invalidated or resolved by a CHoCH enters no other POI, and
\* the candle that enters a POI is not itself tested for invalidation or CHoCH
C39_OneChangePerCandle ==
    [][TakesCandle =>
           IF monitoredPoi # <<>>
           THEN /\ monitoredPoi' \in {monitoredPoi, <<>>}
                /\ activePois' = activePois
                /\ Len(episodes') = Len(episodes)
                /\ monitoredPoi' = <<>> => ltfDataForChoch' = <<>>
           ELSE /\ allDrawings' = allDrawings
                /\ allTrades' = allTrades
                /\ Overlapped(currentLtfCandle') # {} =>
                       /\ monitoredPoi' # <<>>
                       /\ ltfDataForChoch' = <<currentLtfCandle'>>
                       /\ Len(activePois') = Len(activePois) - 1]_vars

\* a POI is monitored although the candle that entered it runs through its far side
C39_Witness ==
    /\ monitoredPoi # <<>>
    /\ ltfDataForChoch = <<currentLtfCandle>>
    /\ IsInvalidated(monitoredPoi[1], currentLtfCandle)

\* the tracker is Idle after a CHoCH on a candle that overlaps another active POI
C39_WitnessResolved ==
    /\ smcPc = "loop"
    /\ monitoredPoi = <<>>
    /\ Overlapped(currentLtfCandle) # {}
    /\ \E k \in DOMAIN allDrawings :
           /\ allDrawings[k].type = "CHoCH"
           /\ allDrawings[k].data.time = currentLtfCandle.time

\* --------------------------------------------------------------------- worker
\* the most requests the worker is followed for
MaxRequests == 3

LiveStarted == "Live mode started. Waiting for next cron trigger."

\* the routes of lines 25-32 and the handlers behind them
Routes == {"status", "settings", "start", "stop"}

\* what POST /api/settings carries: JSON null or a settings object
SettingsBodies == {"null", "posted"}

Request(path, body) == [path |-> path, body |-> body, pc |-> 0, got |-> <<>>, response |-> <<>>]

\* the requests whose handler has returned its Response
Responded(r) == requests[r].response # <<>>

\* the worker is deployed with an empty KV namespace
WkInit ==
    /\ kv = [settings |-> "null", isLive |-> "null", statusMessage |-> "null"]
    /\ requests = <<>>
    /\ wkPc = "serving"

\* lines 8-35: fetch dispatches a request to its handler
Fetch ==
    /\ wkPc = "serving"
    /\ Len(requests) < MaxRequests
    /\ \E path \in Routes, body \in SettingsBodies :
           /\ path # "settings" => body = "null"
           /\ requests' = Append(requests, Request(path, body))
    /\ UNCHANGED <<kv, wkPc>>
    /\ UNCHANGED <<settings, btVars, smcVars, swVars, optVars, rtVars>>

\* the handler of request r resumes after its await: it stores `key` := `value`, and with
\* `body` # <<>> it returns that Response
PutThen(r, key, value, body) ==
    /\ kv' = [kv EXCEPT ![key] = value]
    /\ requests' = [requests EXCEPT ![r].pc = @ + 1, ![r].response = body]

\* lines 55-61: handleStatus reads the three keys one await after the other
handleStatus ==
    /\ wkPc = "serving"
    /\ \E r \in DOMAIN requests :
           /\ requests[r].path = "status"
           /\ ~Responded(r)
           /\ LET q == requests[r] IN
              \/ /\ q.pc = 0
                 /\ requests' = [requests EXCEPT ![r].pc = 1, ![r].got = <<kv.settings>>]
              \/ /\ q.pc = 1
                 /\ requests' = [requests EXCEPT ![r].pc = 2,
                                                 ![r].got = Append(@, kv.isLive = "true")]
              \/ /\ q.pc = 2
                 /\ requests' =
                        [requests EXCEPT
                             ![r].pc = 3,
                             ![r].response =
                                 <<[isLive |-> q.got[2], settings |-> q.got[1],
                                    statusMessage |-> IF kv.statusMessage = "null"
                                                      THEN "Idle" ELSE kv.statusMessage]>>]
    /\ UNCHANGED <<kv, wkPc>>
    /\ UNCHANGED <<settings, btVars, smcVars, swVars, optVars, rtVars>>

\* lines 63-69
handleSettings ==
    /\ wkPc = "serving"
    /\ \E r \in DOMAIN requests :
           /\ requests[r].path = "settings"
           /\ ~Responded(r)
           /\ IF requests[r].body = "null"
              THEN /\ requests' = [requests EXCEPT ![r].pc = 1,
                                                   ![r].response = <<[status |-> 400]>>]
                   /\ UNCHANGED kv
              ELSE PutThen(r, "settings", requests[r].body, <<[success |-> TRUE]>>)
    /\ UNCHANGED wkPc
    /\ UNCHANGED <<settings, btVars, smcVars, swVars, optVars, rtVars>>

\* lines 71-76: two puts, each awaited
handleStart ==
    /\ wkPc = "serving"
    /\ \E r \in DOMAIN requests :
           /\ requests[r].path = "start"
           /\ ~Responded(r)
           /\ \/ /\ requests[r].pc = 0
                 /\ PutThen(r, "isLive", "true", <<>>)
              \/ /\ requests[r].pc = 1
                 /\ PutThen(r, "statusMessage", LiveStarted, <<[success |-> TRUE]>>)
    /\ UNCHANGED wkPc
    /\ UNCHANGED <<settings, btVars, smcVars, swVars, optVars, rtVars>>

\* lines 78-83: two puts, each awaited
handleStop ==
    /\ wkPc = "serving"
    /\ \E r \in DOMAIN requests :
           /\ requests[r].path = "stop"
           /\ ~Responded(r)
           /\ \/ /\ requests[r].pc = 0
                 /\ PutThen(r, "isLive", "false", <<>>)
              \/ /\ requests[r].pc = 1
                 /\ PutThen(r, "statusMessage", "Idle.", <<[success |-> TRUE]>>)
    /\ UNCHANGED wkPc
    /\ UNCHANGED <<settings, btVars, smcVars, swVars, optVars, rtVars>>

WkNext == Fetch \/ handleStatus \/ handleSettings \/ handleStart \/ handleStop

\* the worker reads no Settings value of the analysis
WorkerInit ==
    /\ WkInit /\ settings = BtSettings(I(1), 0, 10, FALSE)
    /\ BtOff /\ SmcOff /\ SwOff /\ OptOff /\ RetryOff

SpecWorker == WorkerInit /\ [][WkNext]_vars

\* ------------------------------------------------------------ claims: worker
\* the start and stop requests, and whether each of them has completed
Switches == {r \in DOMAIN requests : requests[r].path \in {"start", "stop"}}

\* the combinations of (isLive, statusMessage) a single start or stop request stores
Produced == {<<"true", LiveStarted>>, <<"false", "Idle.">>}

\* C40: after any interleaving of /api/start and /api/stop requests has completed, isLive
\* is 'true' if and only if statusMessage is the 'Live mode started...' message (and
\* 'false' if and only if it is 'Idle.'), and a /api/status response reports only a
\* combination that a single start or stop request produced (or, before any of them, the
\* defaults read from the empty store)
C40_LiveStateConsistent ==
    wkPc = "serving" =>
        /\ (Switches # {} /\ \A r \in Switches : Responded(r)) =>
               <<kv.isLive, kv.statusMessage>> \in Produced
        /\ \A r \in DOMAIN requests :
               (requests[r].path = "status" /\ Responded(r)) =>
                   LET body == requests[r].response[1] IN
                   \/ <<IF body.isLive THEN "true" ELSE "false", body.statusMessage>>
                          \in Produced
                   \/ body.isLive = FALSE /\ body.statusMessage = "Idle"

\* a start and a stop request have both completed and left isLive = 'false' next to the
\* 'Live mode started...' message
C40_Witness ==
    /\ wkPc = "serving"
    /\ Len(requests) = 2
    /\ \A r \in DOMAIN requests : Responded(r)
    /\ {requests[r].path : r \in DOMAIN requests} = {"start", "stop"}
    /\ kv.isLive = "false"
    /\ kv.statusMessage = LiveStarted

Init ==
    \/ BacktestInit \/ BacktestWideInit \/ TrackerInit \/ StructureInit \/ LegsInit
    \/ SwingInit \/ OptimizerInit \/ RetryInit \/ WorkerInit

Next ==
    \/ BacktestStep
    \/ BacktestReturn
    \/ WideStep
    \/ TrackerStep
    \/ AnalyzeShort
    \/ AnalyzeReturn
    \/ SelectPois
    \/ HtfSwings
    \/ BullishLeg
    \/ BearishLeg
    \/ FindSwings
    \/ ExpandKey
    \/ RangeStep
    \/ RangeEnd
    \/ Generate
    \/ Throw
    \/ Prepare
    \/ Evaluate
    \/ Return
    \/ RetryEnter
    \/ RetrySettle
    \/ RetryWake
    \/ Fetch
    \/ handleStatus
    \/ handleSettings
    \/ handleStart
    \/ handleStop

Spec == Init /\ [][Next]_vars

====
